---- MODULE Spec2Model ----
(***************************************************************************)
(* A model of the compress-decompress action: one run of the program, from *)
(* its environment (COMMAND, SOURCE, FORMAT, INCLUDEROOT, FAIL_ON_ERROR,   *)
(* DEST, DESTFILENAME, EXCLUDE, GITHUB_WORKSPACE and the filesystem it     *)
(* finds) to its termination.  SpecRoundTrip adds a second run that        *)
(* decompresses the archive the first run produced.                        *)
(*                                                                         *)
(* Further specifications: SpecFair (the processors' runs, with the retry   *)
(* loop going on), SpecAdjustPath, SpecCopyFiles and SpecCwd (adjust_path,  *)
(* copy_files_to_temp_directory and find_files_by_pattern called on their   *)
(* own) and SpecConcurrent (two staged compressions at the same time).      *)
(*                                                                         *)
(* Three ways into the program are modelled:                               *)
(*   "main"        src/app/main.py        main() -> ActionRunner           *)
(*   "entrypoint"  src/entrypoint.py      the script's __main__ block      *)
(*   "processor"   src/app/compress.py    compress(source, format, root)   *)
(*                 src/app/decompress.py  decompress(source, format)       *)
(*                                                                         *)
(* A path is the sequence of its components; an absolute path starts with  *)
(* the component "/".  The filesystem is a function from the paths that    *)
(* exist to "dir", "file" or "link".                                       *)
(***************************************************************************)
EXTENDS Integers, Sequences, FiniteSets, TLC

VARIABLES
    entry,          \* which way into the program this run takes
    COMMAND,        \* os.getenv("COMMAND")
    SOURCE,         \* os.getenv("SOURCE")
    FORMAT,         \* os.getenv("FORMAT")
    INCLUDEROOT,    \* os.getenv("INCLUDEROOT", "true")
    FAIL_ON_ERROR,  \* os.getenv("FAIL_ON_ERROR", "true").lower() == "true"
    DEST,           \* os.getenv("DEST"), NoPath when unset
    DESTFILENAME,   \* os.getenv("DESTFILENAME", "")
    EXCLUDE,        \* os.getenv("EXCLUDE", "").split(): the patterns, in order
    GITHUB_WORKSPACE, \* os.getenv("GITHUB_WORKSPACE"), NoPath when unset
    fs,             \* the filesystem
    pc,             \* the position of the run
    source,         \* self.source (entrypoint.py: the local variable source)
    is_glob_pattern,\* self.is_glob_pattern
    matched_files,  \* self.matched_files
    temp_dir,       \* self.temp_dir
    command_line,   \* the command that was built
    attempt,        \* retry_on_failure: the loop variable attempt
    executed,       \* the shell commands executed so far, with their exit status
    sleeps,         \* the arguments of the time.sleep calls so far
    result,         \* the ProcessResult returned by compress()/decompress()
    pending_exit,   \* a SystemExit is propagating through the finally clause
    exited,         \* the process has terminated
    exit_code,      \* its exit status, when exited
    printed,        \* what UI.print_error, the logger, and the reports printed
    output_lines,   \* the lines appended to $GITHUB_OUTPUT
    cleanup_calls,  \* calls of Compressor._cleanup_temp_directory
    archives,       \* the members of each archive file: name -> "dir" or "file"
    cwd,            \* the working directory of the process
    call,           \* one function called on its own: its arguments, its results
    runs            \* concurrent compressions: the position of each in its command

vars == <<entry, COMMAND, SOURCE, FORMAT, INCLUDEROOT, FAIL_ON_ERROR, DEST,
          DESTFILENAME, EXCLUDE, GITHUB_WORKSPACE, fs, pc,
          source, is_glob_pattern, matched_files, temp_dir, command_line,
          attempt, executed, sleeps, result, pending_exit, exited, exit_code,
          printed, output_lines, cleanup_calls, archives, cwd, call, runs>>

\* What a run reads and never writes: its way in and its environment.
env == <<entry, COMMAND, SOURCE, FORMAT, INCLUDEROOT, FAIL_ON_ERROR, DEST,
         DESTFILENAME, EXCLUDE, GITHUB_WORKSPACE>>

\* What a single run of the program leaves alone: the functions called on
\* their own and the concurrent compressions.
units == <<call, runs>>

-----------------------------------------------------------------------------
(* Values *)

\* Python's None: an unset environment variable, an unset attribute.
None == "<None>"
\* None where a path is expected.
NoPath == <<None>>
\* The empty string where a path is expected.
EmptyPath == <<>>
\* No function is called on its own; no concurrent compression runs.
NoCall == [fn |-> None]
NoRuns == <<>>

\* utils.py: retry_on_failure(max_retries: int = 3, delay: int = 1)
max_retries == 3
delay == 1

\* The largest number of regular files the glob pattern of the model matches.
MaxFiles == 2

-----------------------------------------------------------------------------
(* os.path *)

Root == "/"

isabs(p) == Len(p) > 0 /\ p[1] = Root

dirname(p) ==
    IF Len(p) = 0 THEN <<>>
    ELSE IF p = <<Root>> THEN p
    ELSE SubSeq(p, 1, Len(p) - 1)

basename(p) == IF Len(p) = 0 \/ p = <<Root>> THEN "" ELSE p[Len(p)]

join(d, name) == Append(d, name)

IsPrefix(d, p) == Len(d) <= Len(p) /\ SubSeq(p, 1, Len(d)) = d

-----------------------------------------------------------------------------
(* The paths of the model *)

Cwd == <<Root, "w">>                        \* os.getcwd()
\* os.path.abspath
abspath(p) == IF isabs(p) THEN p ELSE IF p = <<".">> THEN Cwd ELSE Cwd \o p
TempBase == <<Root, "tmp">>                 \* tempfile.gettempdir()
Pid == "4711"                               \* os.getpid()

\* a directory: a, .hidden, data2, build/x, data/y
P_data == <<Root, "w", "data">>
P_archive == <<Root, "w", "pkg.tgz">>       \* a regular file
P_missing == <<Root, "w", "missing">>       \* never exists
P_link == <<Root, "w", "link">>             \* a symbolic link to P_target
P_target == <<Root, "w", "target">>         \* exists or not
P_runner == <<Root, "home", "runner", "work", "repo", "repo", "missing">>
P_workspace == <<Root, "github", "workspace">>  \* exists or not
P_glob == <<Root, "w", "*.txt">>            \* a glob pattern
\* a glob pattern below the runner's workspace
P_runner_glob == <<Root, "home", "runner", "work", "repo", "repo", "*.txt">>
P_out == <<"out">>                          \* a relative destination directory
P_restored == <<Root, "w", "restored">>     \* the destination of a restore, never there before
P_rel == <<"data">>                         \* a relative path: P_data, from Cwd
P_empty == <<Root, "w", "empty">>           \* a directory with no entry

\* files left before the run in the directories where it stages
P_staged_old == <<Root, "w", "temp_data_tgz", "old">>
P_glob_old == <<Root, "tmp", "compress_glob_" \o Pid, "old">>
Leftovers == {P_staged_old, P_glob_old}

\* The components that hold one of the characters * ? [ ]
GlobComponents == {"*.txt"}

Stems == {"f" \o ToString(i) : i \in 1..MaxFiles}
TxtFile(i) == join(Cwd, "f" \o ToString(i) \o ".txt")

\* fnmatch of one component against one name.
fnmatch(name, pat) ==
    IF pat = "*.txt" THEN \E b \in Stems : name = b \o ".txt"
    ELSE name = pat

\* os.path.splitext on a file name: the extension starts at the last dot,
\* unless only dots come before it
splitext(name) ==
    LET dots == {i \in 1..Len(name) : SubSeq(name, i, i) = "."}
        dotIndex == IF dots = {} THEN 0 ELSE CHOOSE i \in dots : \A j \in dots : j <= i
    IN IF dotIndex > 0 /\ \E j \in 1..(dotIndex - 1) : SubSeq(name, j, j) # "."
       THEN <<SubSeq(name, 1, dotIndex - 1), SubSeq(name, dotIndex, Len(name))>>
       ELSE <<name, "">>

LinkTarget(p) == IF p = P_link THEN P_target ELSE p

BaseFs ==
    [p \in {<<Root>>, Cwd, TempBase, P_data, join(P_data, "build"),
             join(P_data, "data"), P_empty} |-> "dir"]
    @@ [p \in {P_archive, join(P_data, "a"), join(P_data, ".hidden"),
               join(P_data, "data2"), join(join(P_data, "build"), "x"),
               join(join(P_data, "data"), "y")} |-> "file"]
    @@ [p \in {P_link} |-> "link"]

\* The members of the archive P_archive, by their names inside the archive
BaseArchives == (P_archive :> [m \in {<<"pkg">>, <<"pkg", "a">>} |->
                                  IF m = <<"pkg">> THEN "dir" ELSE "file"])

-----------------------------------------------------------------------------
(* The filesystem, as os.path and shutil see it; f is a filesystem *)

\* a relative path is looked up from the current directory; "" names nothing
lexists(f, p) == p # EmptyPath /\ abspath(p) \in DOMAIN f
islink(f, p) == lexists(f, p) /\ f[abspath(p)] = "link"
realpath(f, p) == IF islink(f, p) THEN LinkTarget(abspath(p)) ELSE abspath(p)
exists(f, p) ==
    p # EmptyPath /\ lexists(f, realpath(f, p)) /\ f[realpath(f, p)] # "link"
isdir(f, p) == exists(f, p) /\ f[realpath(f, p)] = "dir"
isfile(f, p) == exists(f, p) /\ f[realpath(f, p)] = "file"

\* os.makedirs(p, exist_ok=True), the parents of the model's paths existing
makedirs(f, p) == IF lexists(f, p) THEN f ELSE f @@ (p :> "dir")
\* shutil.copy2(src, dst)
copy2(f, dst) == [q \in DOMAIN f \cup {dst} |-> IF q = dst THEN "file" ELSE f[q]]
\* shutil.rmtree(p); rm -rf p
rmtree(f, p) == [q \in {r \in DOMAIN f : ~IsPrefix(p, r)} |-> f[q]]

-----------------------------------------------------------------------------
(* What the processors read from the environment *)

\* BaseProcessor.__init__: self.dest
self_dest ==
    IF DEST # NoPath THEN DEST
    ELSE IF GITHUB_WORKSPACE # NoPath THEN GITHUB_WORKSPACE
    ELSE Cwd

\* Compressor.__init__: self.include_root
include_root == INCLUDEROOT = "true"

-----------------------------------------------------------------------------
(* What the program prints: the level, the text, the path and the captured *)
(* standard error the message holds                                        *)

Msg(level, text, path, stderr) ==
    [level |-> level, text |-> text, path |-> path, stderr |-> stderr]
NoMsg == Msg("", "", <<>>, "")

\* An exception: its type, str(e), and the stderr its message holds.
Exc(type, text, stderr) == [type |-> type, text |-> text, stderr |-> stderr]

\* ProcessResult(success, message)
ProcessResult(success, message) == [success |-> success, message |-> message]
NoResult == ProcessResult(FALSE, None)

-----------------------------------------------------------------------------
(* utils.py *)

CompressionFormat == {"zip", "tar", "tgz", "tbz2"}

\* FileUtils.adjust_path (the paths of the model carry no surrounding
\* whitespace and no ".." components)
adjust_path(p) ==
    IF isabs(p) THEN p
    ELSE IF GITHUB_WORKSPACE # NoPath THEN abspath(GITHUB_WORKSPACE \o p)
    ELSE abspath(Cwd \o p)

\* FileUtils.is_glob_pattern
is_glob(p) == \E i \in 1..Len(p) : p[i] \in GlobComponents

\* A sequence of the elements of a finite set of paths, in a fixed order.
RECURSIVE SetToSeq(_)
SetToSeq(S) ==
    IF S = {} THEN <<>>
    ELSE LET x == CHOOSE y \in S : TRUE IN <<x>> \o SetToSeq(S \ {x})

\* glob.glob(pattern, recursive=True) for a pattern without "**"
glob_matches(f, pattern) ==
    {q \in DOMAIN f : Len(q) = Len(pattern) /\
                      \A i \in 1..Len(q) : fnmatch(q[i], pattern[i])}

\* FileUtils.find_files_by_pattern, lines 478-483: base_dir defaults to the
\* working directory, and os.chdir(base_dir)
find_files_chdir(now, base_dir) == IF base_dir = NoPath THEN now ELSE base_dir

\* find_files_by_pattern, lines 499-501: os.chdir(original_dir)
find_files_finally(original_dir, now) == original_dir

\* FileUtils.find_files_by_pattern
find_files_by_pattern(f, pattern) ==
    SetToSeq({m \in glob_matches(f, abspath(pattern)) : isfile(f, realpath(f, m))})

\* validate_path without its check of the link target
validate_path_lexists_only(f, path, error_prefix) ==
    IF ~lexists(f, path)
    THEN Msg("error", error_prefix \o " does not exist", path, "")
    ELSE NoMsg

\* BaseProcessor.validate_path: the error it reports, NoMsg when the path is valid
validate_path(f, path, error_prefix) ==
    IF ~lexists(f, path)
    THEN Msg("error", error_prefix \o " does not exist", path, "")
    ELSE IF islink(f, path) /\ ~exists(f, realpath(f, path))
    THEN Msg("error", error_prefix \o " is a broken symbolic link", path, "")
    ELSE NoMsg

\* FileUtils.copy_files_to_temp_directory, preserve_structure=False: the
\* destination of one file
RECURSIVE flat_dest(_, _, _, _, _)
flat_dest_overwrite(f, dir, file_name, dest_path, counter) == dest_path
flat_dest(f, dir, file_name, dest_path, counter) ==
    IF exists(f, dest_path)
    THEN flat_dest(f, dir, file_name,
                   join(dir, splitext(file_name)[1] \o "_" \o ToString(counter)
                             \o splitext(file_name)[2]),
                   counter + 1)
    ELSE dest_path

\* FileUtils.copy_files_to_temp_directory: the first n of file_paths copied
RECURSIVE copy_files(_, _, _, _)
copy_files(f, file_paths, dir, n) ==
    IF n = 0 THEN makedirs(f, dir)
    ELSE LET g == copy_files(f, file_paths, dir, n - 1)
             name == basename(file_paths[n])
         IN copy2(g, flat_dest(g, dir, name, join(dir, name), 1))

-----------------------------------------------------------------------------
(* compress.py: the command Compressor builds.  A command is a record: the *)
(* tool, the directory of a leading "cd", the option letters, the archive, *)
(* the -C directory, the member named last, the exclude patterns, and the  *)
(* staging directory of the mkdir/cp/tar/rm chain.                         *)

Command(tool, cd, opt, archive, C, target, exclude, staging) ==
    [tool |-> tool, cd |-> cd, opt |-> opt, archive |-> archive, C |-> C,
     target |-> target, exclude |-> exclude, staging |-> staging]
NoCommand == Command(None, <<>>, "", <<>>, <<>>, "", <<>>, <<>>)
\* The staged chain: "cp -r <copied>/* <staging>/" goes before the tar.
StagedCommand(opt, archive, exclude, staging, copied) ==
    [Command("mkdir+cp+tar+rm", <<>>, opt, archive, staging, ".", exclude, staging)
        EXCEPT !.cd = copied]

\* Compressor.validate, lines 46-52: self.source after the runner-path rewrite
runner_path(src) ==
    IF Len(src) > 4 /\ IsPrefix(<<Root, "home", "runner", "work">>, src)
    THEN P_workspace
    ELSE src

\* str.startswith, str.endswith
startswith(str, prefix) ==
    Len(prefix) <= Len(str) /\ SubSeq(str, 1, Len(prefix)) = prefix
endswith(str, suffix) ==
    Len(suffix) <= Len(str) /\ SubSeq(str, Len(str) - Len(suffix) + 1, Len(str)) = suffix

\* The components of a relative path written with "/" between them; a
\* trailing "/" adds none
RECURSIVE components(_, _)
components(str, name) ==
    IF str = "" THEN (IF name = "" THEN <<>> ELSE <<name>>)
    ELSE IF Head(str) = "/"
    THEN (IF name = "" THEN <<>> ELSE <<name>>) \o components(Tail(str), "")
    ELSE components(Tail(str), name \o Head(str))

\* os.path.isdir(os.path.join(source_path, pattern)), pattern a relative path
isdir_below(f, source_path, pattern) ==
    isdir(f, source_path \o components(pattern, ""))

\* Compressor._format_pattern_with_root
format_pattern_with_root(f, pattern, source_path, dir_name) ==
    IF startswith(pattern, dir_name \o "/") \/ pattern = dir_name
    THEN <<pattern>>
    ELSE IF isdir_below(f, source_path, pattern) /\ ~endswith(pattern, "/*")
    THEN IF endswith(pattern, "/")
         THEN <<dir_name \o "/" \o pattern \o "*">>
         ELSE <<dir_name \o "/" \o pattern \o "/*", dir_name \o "/" \o pattern \o "/">>
    ELSE <<dir_name \o "/" \o pattern>>

\* Compressor._format_pattern_without_root
format_pattern_without_root(f, pattern, source_path) ==
    IF isdir_below(f, source_path, pattern) /\ ~endswith(pattern, "/*")
    THEN <<pattern \o "/*", pattern \o "/">>
    ELSE <<pattern>>

\* Compressor._format_zip_exclude_patterns
RECURSIVE format_zip_exclude_patterns(_, _, _, _)
format_zip_exclude_patterns(f, patterns, source_path, dir_name) ==
    IF patterns = <<>> THEN <<>>
    ELSE (IF include_root
          THEN format_pattern_with_root(f, Head(patterns), source_path, dir_name)
          ELSE format_pattern_without_root(f, Head(patterns), source_path))
         \o format_zip_exclude_patterns(f, Tail(patterns), source_path, dir_name)

\* Compressor._process_zip_exclude_patterns: the patterns of the -x options
process_zip_exclude_patterns(f, source_path) ==
    format_zip_exclude_patterns(f, EXCLUDE, source_path, basename(source_path))

\* Compressor._process_tar_exclude_patterns: the patterns of the --exclude
\* options
process_tar_exclude_patterns(source_path) ==
    LET dir_name == basename(source_path)
    IN [i \in 1..Len(EXCLUDE) |->
          IF include_root /\ ~startswith(EXCLUDE[i], dir_name)
          THEN dir_name \o "/" \o EXCLUDE[i]
          ELSE EXCLUDE[i]]

\* Compressor._process_special_tar_exclude_patterns
process_special_tar_exclude_patterns == EXCLUDE

\* _determine_destination_path without its comparison with os.getcwd()
determine_destination_path_in_dest(src, base_name, extension) ==
    IF self_dest # EmptyPath
    THEN abspath(join(self_dest, base_name \o extension))
    ELSE join(IF include_root THEN dirname(src) ELSE src, base_name \o extension)

\* Compressor._determine_destination_path
determine_destination_path(src, base_name, extension) ==
    IF self_dest # EmptyPath /\ self_dest # Cwd
    THEN abspath(join(self_dest, base_name \o extension))
    ELSE join(IF include_root THEN dirname(src) ELSE src, base_name \o extension)

\* _get_zip_command with the test of include_root lost: always the parent
\* directory and the directory's name
get_zip_command_from_parent(f, src, full_dest, base_name) ==
    LET source_path == IF abspath(src) = P_workspace THEN Cwd ELSE abspath(src)
        exclude_cmd == process_zip_exclude_patterns(f, source_path)
    IN Command("zip", dirname(source_path), "-r", full_dest, <<>>,
               basename(source_path), exclude_cmd, <<>>)

\* Compressor._get_zip_command
get_zip_command(f, src, full_dest, base_name) ==
    LET source_path == IF abspath(src) = P_workspace THEN Cwd ELSE abspath(src)
        exclude_cmd == process_zip_exclude_patterns(f, source_path)
    IN IF include_root
       THEN Command("zip", dirname(source_path), "-r", full_dest, <<>>,
                    basename(source_path), exclude_cmd, <<>>)
       ELSE Command("zip", source_path, "-r", full_dest, <<>>, ".", exclude_cmd, <<>>)

\* Compressor._get_special_tar_command
get_special_tar_command(src, fmt, full_dest, base_name, opt) ==
    LET source_path == abspath(src)
        staging == join(dirname(source_path), "temp_" \o base_name \o "_" \o fmt)
    IN StagedCommand("-c" \o opt \o "f", full_dest,
                     process_special_tar_exclude_patterns, staging, source_path)

\* Compressor._get_tar_command: tar_options.get(self.format, "")
tar_option(fmt) ==
    IF fmt = "tgz" THEN "z" ELSE IF fmt = "tbz2" THEN "j" ELSE ""

\* Compressor._get_tar_command
get_tar_command(src, fmt, full_dest, base_name) ==
    LET source_path == IF abspath(src) = P_workspace THEN Cwd ELSE abspath(src)
        opt == tar_option(fmt)
        exclude_cmd == process_tar_exclude_patterns(source_path)
    IN IF fmt \in {"tgz", "tbz2"} /\ ~include_root
       THEN get_special_tar_command(src, fmt, full_dest, base_name, opt)
       ELSE IF include_root
       THEN Command("tar", <<>>, "-c" \o opt \o "f", full_dest, dirname(source_path),
                    basename(source_path), exclude_cmd, <<>>)
       ELSE Command("tar", <<>>, "-c" \o opt \o "f", full_dest, source_path, ".",
                    exclude_cmd, <<>>)

\* Compressor.get_compression_command
get_compression_command(f, src, fmt) ==
    LET base_name == IF DESTFILENAME # "" THEN DESTFILENAME ELSE basename(src)
        full_dest == determine_destination_path(src, base_name, "." \o fmt)
    IN IF fmt = "zip" THEN get_zip_command(f, src, full_dest, base_name)
       ELSE get_tar_command(src, fmt, full_dest, base_name)

-----------------------------------------------------------------------------
(* decompress.py, utils.py: the command Decompressor builds *)

\* utils.DECOMPRESSION_COMMANDS
DECOMPRESSION_COMMANDS == {"zip", "tar", "tgz", "tbz2"}

\* get_decompression_command with the options of a tar format never given
\* the destination
get_decompression_command_here(src, fmt) ==
    LET d == IF self_dest # EmptyPath THEN self_dest ELSE <<".">>
    IN IF fmt = "zip"
       THEN Command("unzip", <<>>, IF self_dest # EmptyPath THEN "-d" ELSE "-j -d",
                    src, d, "", <<>>, <<>>)
       ELSE Command("tar", <<>>, "-x" \o tar_option(fmt) \o "f", src, <<".">>, "",
                    <<>>, <<>>)

\* Decompressor.get_decompression_command, for a format of DECOMPRESSION_COMMANDS
get_decompression_command(src, fmt) ==
    LET d == IF self_dest # EmptyPath THEN self_dest ELSE <<".">>
    IN IF fmt = "zip"
       THEN Command("unzip", <<>>, IF self_dest # EmptyPath THEN "-d" ELSE "-j -d",
                    src, d, "", <<>>, <<>>)
       ELSE Command("tar", <<>>, "-x" \o tar_option(fmt) \o "f", src, d, "", <<>>, <<>>)

-----------------------------------------------------------------------------
(* The shell.  A command ends in one of its outcomes: "ok" (status 0), or  *)
(* the step that failed.                                                   *)

\* The names a shell's * does not expand to: those that start with a dot.
DotNames == {".hidden"}

\* The entries of directory d that "d/*" expands to.
star(f, d) == {q \in DOMAIN f : Len(q) = Len(d) + 1 /\ IsPrefix(d, q) /\
                                basename(q) \notin DotNames}

\* cp -r d/* t/ : every entry below the expansion of d/*, under t
cp_r_star(f, d, t) ==
    LET copied == {q \in DOMAIN f : \E e \in star(f, d) : IsPrefix(e, q)}
        moved(q) == t \o SubSeq(q, Len(d) + 1, Len(q))
    IN [r \in DOMAIN f \cup {moved(q) : q \in copied} |->
          IF \E q \in copied : moved(q) = r
          THEN f[CHOOSE q \in copied : moved(q) = r]
          ELSE f[r]]

\* A command that extracts: those of the model that name no member to add
Extracts(cmd) == cmd.tool = "unzip" \/ (cmd.tool = "tar" /\ cmd.target = "")

\* The components of a member's name, written with "/" between them
RECURSIVE Join(_)
Join(m) ==
    IF m = <<>> THEN ""
    ELSE IF Len(m) = 1 THEN m[1]
    ELSE m[1] \o "/" \o Join(Tail(m))

\* The archivers' wildcard match of a whole name: * stands for any
\* characters, "/" among them
RECURSIVE wild(_, _)
wild(pattern, name) ==
    IF pattern = "" THEN name = ""
    ELSE IF Head(pattern) = "*"
    THEN wild(Tail(pattern), name) \/ (name # "" /\ wild(pattern, Tail(name)))
    ELSE name # "" /\ Head(name) = Head(pattern) /\ wild(Tail(pattern), Tail(name))

\* What "zip -r" and "tar -c" walk when they are given target in directory
\* dir: the paths relative to dir
entries(f, dir, target) ==
    LET top == IF target = "." THEN dir ELSE join(dir, target)
    IN {SubSeq(q, Len(dir) + 1, Len(q)) :
           q \in {r \in DOMAIN f : IsPrefix(top, r) /\ r # dir}}

\* zip -x: a pattern excludes the entries whose whole name it matches, a
\* directory's name ending in "/"
zip_excluded(f, dir, m, exclude) ==
    \E i \in 1..Len(exclude) :
        wild(exclude[i], Join(m) \o (IF f[dir \o m] = "dir" THEN "/" ELSE ""))

\* cd dir && zip -r archive target -x ...: the members of the archive
zip_members(f, cmd) ==
    LET kept == {m \in entries(f, cmd.cd, cmd.target) :
                    /\ cmd.cd \o m # cmd.archive
                    /\ ~zip_excluded(f, cmd.cd, m, cmd.exclude)}
    IN [m \in kept |-> f[cmd.cd \o m]]

\* tar --exclude: a pattern excludes a member when it matches the member's
\* name, or the name of a directory above it, from the start of a component
tar_excluded(m, exclude) ==
    \E i \in 1..Len(exclude), j \in 1..Len(m), k \in 1..Len(m) :
        j <= k /\ wild(exclude[i], Join(SubSeq(m, j, k)))

\* tar ... -cf archive -C dir target: the members of the archive
tar_members(f, dir, target, exclude, archive) ==
    LET kept == {m \in entries(f, dir, target) :
                    dir \o m # archive /\ ~tar_excluded(m, exclude)}
    IN [m \in kept |-> f[dir \o m]]

\* unzip -d dest, tar -x -C dest: every member below dest; unzip -j: the
\* files only, by their last component
extract(f, members, dest, junk_paths) ==
    LET ms == IF junk_paths THEN {m \in DOMAIN members : members[m] = "file"}
              ELSE DOMAIN members
        placed(m) == IF junk_paths THEN join(dest, basename(m)) ELSE dest \o m
    IN [q \in DOMAIN f \cup {placed(m) : m \in ms} |->
          IF \E m \in ms : placed(m) = q
          THEN members[CHOOSE m \in ms : placed(m) = q]
          ELSE f[q]]

\* What a zip or tar command that archives is given: the target in the
\* directory the archiver works in
Archived(cmd) ==
    LET dir == IF cmd.C = <<>> THEN cmd.cd ELSE cmd.C
    IN IF cmd.target = "." THEN dir ELSE join(dir, cmd.target)

\* The outcomes of a command: "ok" (status 0), or the step that failed.  The
\* cp of the staged chain fails when d/* expands to nothing; an extraction
\* fails when its source is no archive; an archiver fails when what it is to
\* archive does not exist, and zip when it finds nothing to add.
ShellOutcomes(f, a, cmd) ==
    IF cmd.tool = "mkdir+cp+tar+rm"
    THEN {"mkdir", "cp"} \cup
         (IF isdir(f, cmd.cd) /\ star(f, cmd.cd) # {} THEN {"tar", "ok"} ELSE {})
    ELSE IF Extracts(cmd)
    THEN (IF cmd.archive \in DOMAIN a THEN {"ok", "failed"} ELSE {"failed"})
    ELSE IF ~exists(f, Archived(cmd)) THEN {"failed"}
    ELSE IF cmd.tool = "zip" /\ entries(f, cmd.cd, cmd.target) = {} THEN {"failed"}
    ELSE {"ok", "failed"}

\* What the shell prints on standard error when the command fails.
Stderr == "archiver: cannot do it"

\* mkdir -p T && cp -r S/* T/ && tar ... -C T . && rm -rf T
staged_shell(f, cmd, outcome) ==
    IF outcome = "mkdir" THEN f
    ELSE IF outcome = "cp" THEN makedirs(f, cmd.staging)
    ELSE IF outcome = "tar" THEN cp_r_star(makedirs(f, cmd.staging), cmd.cd, cmd.staging)
    ELSE rmtree(copy2(f, cmd.archive), cmd.staging)

\* subprocess.run(command, shell=True): the filesystem after the command
shell(f, a, cmd, outcome) ==
    IF cmd.tool = "mkdir+cp+tar+rm" THEN staged_shell(f, cmd, outcome)
    ELSE IF outcome # "ok" THEN f
    ELSE IF Extracts(cmd)
    THEN extract(f, a[cmd.archive], abspath(cmd.C), cmd.opt = "-j -d")
    ELSE copy2(f, cmd.archive)

\* subprocess.run(command, shell=True): the archives after the command
shell_archives(f, a, cmd, outcome) ==
    IF outcome # "ok" \/ Extracts(cmd) THEN a
    ELSE IF cmd.tool = "mkdir+cp+tar+rm"
    THEN (cmd.archive :> tar_members(cp_r_star(makedirs(f, cmd.staging), cmd.cd, cmd.staging),
                                     cmd.staging, ".", cmd.exclude, cmd.archive)) @@ a
    ELSE IF cmd.tool = "zip" THEN (cmd.archive :> zip_members(f, cmd)) @@ a
    ELSE (cmd.archive :> tar_members(f, IF cmd.C = <<>> THEN cmd.cd ELSE cmd.C,
                                     cmd.target, cmd.exclude, cmd.archive)) @@ a

-----------------------------------------------------------------------------
(* The processors' pure parts *)

\* BaseProcessor.prepare_destination
prepare_destination(f) ==
    IF self_dest # EmptyPath /\ ~exists(f, abspath(self_dest))
    THEN makedirs(f, abspath(self_dest))
    ELSE f

\* Compressor.validate: the new self.source, is_glob_pattern, matched_files,
\* and the error it reports (NoMsg when it returns True)
Compressor_validate(f, src) ==
    LET s == runner_path(src)
        matched == IF is_glob(s) THEN find_files_by_pattern(f, s) ELSE <<>>
    IN [source |-> s,
        is_glob_pattern |-> is_glob(s),
        matched_files |-> matched,
        error |-> IF is_glob(s)
                  THEN IF matched = <<>>
                       THEN Msg("error", "No files matched the pattern", s, "")
                       ELSE NoMsg
                  ELSE validate_path(f, s, "Source path")]

\* Decompressor.validate with the directory of the source validated in the
\* place of the source
Decompressor_validate_parent(f, src) == validate_path(f, dirname(src), "Source file")

\* Decompressor.validate
Decompressor_validate(f, src) == validate_path(f, src, "Source file")

\* _cleanup_temp_directory with os.rmdir in the place of shutil.rmtree
cleanup_with_rmdir(f, t) ==
    IF t # NoPath /\ exists(f, t) /\ ~\E q \in DOMAIN f : q # t /\ IsPrefix(t, q)
    THEN rmtree(f, t)
    ELSE f

\* Compressor._cleanup_temp_directory
cleanup_temp_directory(f, t) ==
    IF t # NoPath /\ exists(f, t) THEN rmtree(f, t) ELSE f

\* Compressor._compress_glob_pattern, line 485
glob_temp_dir == join(TempBase, "compress_glob_" \o Pid)

\* CommandExecutor.run, lines 345-349: what a nonzero exit status becomes,
\* an exception to raise (NoExc: none, a failed ProcessResult is returned)
NoExc == Exc(None, "", "")
run_failure_never_raises(fail_on_error) == NoExc
run_failure(fail_on_error) ==
    IF fail_on_error THEN Exc("RuntimeError", "Command failed", Stderr) ELSE NoExc

\* retry_on_failure with the test of the last attempt lost: it sleeps after
\* every failed attempt
retry_delay_always(a) == delay * (a + 1)

\* retry_on_failure, lines 168-172: after a raised exception in attempt a,
\* the delay to sleep before the next attempt; 0 when the exception is re-raised
retry_delay(a) == IF a = max_retries - 1 THEN 0 ELSE delay * (a + 1)

-----------------------------------------------------------------------------
(* The ways a function of the program ends *)

\* sys.exit(code) with nothing left to unwind, or an uncaught exception
Exit(code, msgs) ==
    /\ printed' = printed \cup msgs
    /\ exited' = TRUE
    /\ exit_code' = code
    /\ pc' = "done"
    /\ UNCHANGED <<result, pending_exit>>

\* compress()/decompress() return to the caller: main.py runs to its end and
\* the interpreter exits with status 0
Return(r, msgs) ==
    /\ printed' = printed \cup msgs
    /\ result' = r
    /\ pc' = "done"
    /\ exited' = (entry # "processor")
    /\ exit_code' = 0
    /\ UNCHANGED pending_exit

\* Inside the try of Compressor.compress: sys.exit(1) and return both pass
\* through the finally clause
TryExit(msgs) ==
    /\ printed' = printed \cup msgs
    /\ pending_exit' = TRUE
    /\ pc' = "c_finally"
    /\ UNCHANGED <<result, exited, exit_code>>

TryReturn(r, msgs) ==
    /\ printed' = printed \cup msgs
    /\ result' = r
    /\ pc' = "c_finally"
    /\ UNCHANGED <<pending_exit, exited, exit_code>>

\* BaseProcessor.handle_error(e, context), called from the except clause of
\* Compressor.compress
HandleErrorCompress(e) ==
    IF FAIL_ON_ERROR
    THEN TryExit({Msg("error", "Compression failed: " \o e.text, <<>>, e.stderr)})
    ELSE TryReturn(ProcessResult(FALSE, e.text),
                   {Msg("warning", "Compression warning: " \o e.text, <<>>, e.stderr)})

\* BaseProcessor.handle_error(e, context), called from the except clause of
\* Decompressor.decompress
HandleErrorDecompress(e) ==
    IF FAIL_ON_ERROR
    THEN Exit(1, {Msg("error", "Decompression failed: " \o e.text, <<>>, e.stderr)})
    ELSE Return(ProcessResult(FALSE, e.text),
                {Msg("warning", "Decompression warning: " \o e.text, <<>>, e.stderr)})

\* validate_path and Compressor.validate, on an invalid source: print the
\* error and sys.exit(1), or log the warning and return False
Warning(m) == [m EXCEPT !.level = "warning"]

-----------------------------------------------------------------------------
(* main.py *)

\* ActionRunner.__init__, lines 31-32: FileUtils.str_to_bool is no attribute
\* of utils.FileUtils, so the constructor raises
ActionRunner_init == Exc("AttributeError", "FileUtils has no attribute str_to_bool", "")

\* ActionRunner.validate_inputs: the error it prints before sys.exit(1)
validate_inputs(command, src, fmt) ==
    IF command \in {None, ""} THEN Msg("error", "Command is required", <<>>, "")
    ELSE IF src \in {NoPath, EmptyPath} THEN Msg("error", "Source is required", <<>>, "")
    ELSE IF fmt \in {None, ""} THEN Msg("error", "Format is required", <<>>, "")
    ELSE IF fmt \notin CompressionFormat THEN Msg("error", "Invalid format", <<>>, "")
    ELSE NoMsg

\* ActionRunner.execute_command, line 106: compress() takes three arguments
\* and is called with five
execute_compress == Exc("TypeError", "compress() takes 3 positional arguments", "")

-----------------------------------------------------------------------------
(* entrypoint.py *)

\* validate_format with a truthiness guard before the membership test
entrypoint_validate_format_if_set(fmt) ==
    IF fmt \notin {None, ""} /\ fmt \notin {"zip", "tar", "tgz", "tbz2"}
    THEN Msg("error", "Invalid format", <<>>, "")
    ELSE NoMsg

\* validate_format
entrypoint_validate_format(fmt) ==
    IF fmt \notin {"zip", "tar", "tgz", "tbz2"}
    THEN Msg("error", "Invalid format", <<>>, "")
    ELSE NoMsg

\* compress, lines 92-94, decompress, lines 176-178: os.path.exists(None)
\* raises TypeError, which the script's except clause reports
entrypoint_source_error(f, src, what) ==
    IF src = NoPath THEN Msg("error", "Unexpected error occurred", <<>>, "")
    ELSE IF ~exists(f, src) THEN Msg("error", what \o " does not exist", src, "")
    ELSE NoMsg

\* adjust_path
entrypoint_adjust_path(p) ==
    IF isabs(p) THEN p
    ELSE (IF GITHUB_WORKSPACE # NoPath THEN GITHUB_WORKSPACE ELSE Cwd) \o p

\* compress, lines 119-137: the directory after os.chdir; a file as the
\* source leaves the directory as it is
entrypoint_chdir(f, src, root, now) ==
    LET s == entrypoint_adjust_path(src)
    IN IF isdir(f, s) THEN (IF root = "true" THEN dirname(s) ELSE s) ELSE now

\* compress, line 149, with the os.chdir(cwd) left out
entrypoint_no_restore(original, now) == now

\* compress, line 149: os.chdir(cwd), cwd being the directory of line 107
entrypoint_restore(original, now) == original

\* compress, lines 100-146: the command it runs
entrypoint_compress_command(f, src, fmt, root) ==
    LET s == entrypoint_adjust_path(src)
        base_name == basename(s)
        full_dest == join(self_dest, base_name \o "." \o fmt)
        target == IF isdir(f, s) /\ root # "true" THEN "." ELSE base_name
        dir == IF isdir(f, s) THEN (IF root = "true" THEN dirname(s) ELSE s) ELSE Cwd
    IN IF fmt = "zip" THEN Command("zip", dir, "-r", full_dest, <<>>, target, <<>>, <<>>)
       ELSE Command("tar", dir,
                    IF fmt = "tar" THEN "--absolute-names -cvf"
                    ELSE "-P -c" \o tar_option(fmt) \o "vf",
                    full_dest, <<>>, target, <<>>, <<>>)

\* decompress, lines 189-208: the command it runs
entrypoint_decompress_command(src, fmt) ==
    LET s == entrypoint_adjust_path(src)
    IN IF fmt = "zip" THEN Command("unzip", <<>>, "-d", s, self_dest, "", <<>>, <<>>)
       ELSE Command("tar", <<>>,
                    IF fmt = "tar" THEN "--absolute-names -xvf"
                    ELSE "-P -x" \o tar_option(fmt) \o "vf",
                    s, self_dest, "", <<>>, <<>>)

-----------------------------------------------------------------------------
(* The run *)

Sources == {P_data, P_archive, P_missing, P_link, P_runner, P_glob, P_runner_glob}
\* The sources the processors are also called on, with DEST and DESTFILENAME
\* unset
ProcessorSources == {P_rel, P_empty}
Commands == {"compress", "decompress"}
\* The values of DEST: unset, empty, the current directory, another directory
Dests == {NoPath, EmptyPath, Cwd, P_out}
DestFileNames == {"", "backup"}
\* The values of EXCLUDE, split
Excludes == {<<>>, <<"build">>, <<"build/">>, <<"data/build">>, <<"data">>, <<"data2">>}
Workspaces == {NoPath, P_workspace}

\* The filesystems a run may find: BaseFs, the first n files that match the
\* glob pattern, and the optional paths
InitialFs(n, optional) ==
    BaseFs @@ [p \in {TxtFile(i) : i \in 1..n} |-> "file"]
           @@ [p \in optional |-> IF p = P_workspace THEN "dir" ELSE "file"]
           @@ [p \in {dirname(q) : q \in optional \cap Leftovers} |-> "dir"]

\* The leftover a run may find where it is going to stage: for the staged
\* command on P_data, and for a glob pattern that matches n files
LeftoverAt(e, command, src, fmt, root, dest, ws, destfilename, n) ==
    IF e # "processor" \/ command # "compress" \/ dest # NoPath \/ ws # NoPath
       \/ destfilename # ""
    THEN {}
    ELSE IF src = P_data /\ fmt = "tgz" /\ root = "false" THEN {P_staged_old}
    ELSE IF src = P_glob /\ n > 0 THEN {P_glob_old}
    ELSE {}

Init ==
    /\ entry \in {"main", "entrypoint", "processor"}
    /\ COMMAND \in IF entry = "processor" THEN Commands
                   ELSE Commands \cup {None, "", "extract"}
    /\ SOURCE \in IF entry = "processor" THEN Sources \cup ProcessorSources
                  ELSE Sources \cup {NoPath, EmptyPath}
    /\ FORMAT \in IF entry = "processor" THEN CompressionFormat \cup {"rar"}
                  ELSE CompressionFormat \cup {"rar", None, ""}
    /\ INCLUDEROOT \in {"true", "false"}
    /\ FAIL_ON_ERROR \in BOOLEAN
    /\ DEST \in IF entry = "processor" /\ SOURCE \in Sources THEN Dests ELSE {NoPath}
    /\ DESTFILENAME \in IF entry = "processor" /\ SOURCE \in Sources
                        THEN DestFileNames ELSE {""}
    \* the patterns name entries of P_data: they vary where P_data is the
    \* source, and where an archive is extracted
    /\ EXCLUDE \in IF entry = "processor" /\ SOURCE \in {P_data, P_archive}
                   THEN Excludes ELSE {<<>>}
    \* GITHUB_WORKSPACE is read for self.dest when DEST is unset, and for a
    \* relative source
    /\ GITHUB_WORKSPACE \in IF entry = "processor" /\ DEST = NoPath
                            THEN Workspaces ELSE {NoPath}
    /\ archives = BaseArchives
    /\ \E n \in 0..MaxFiles, optional \in SUBSET {P_target, P_workspace} :
          \E leftover \in SUBSET LeftoverAt(entry, COMMAND, SOURCE, FORMAT, INCLUDEROOT,
                                            DEST, GITHUB_WORKSPACE, DESTFILENAME, n) :
              fs = InitialFs(n, optional \cup leftover)
    /\ pc = "start"
    /\ source = SOURCE
    /\ is_glob_pattern = FALSE
    /\ matched_files = <<>>
    /\ temp_dir = NoPath
    /\ command_line = NoCommand
    /\ attempt = 0
    /\ executed = <<>>
    /\ sleeps = <<>>
    /\ result = NoResult
    /\ pending_exit = FALSE
    /\ exited = FALSE
    /\ exit_code = 0
    /\ printed = {}
    /\ output_lines = <<>>
    /\ cleanup_calls = 0
    /\ cwd = Cwd
    /\ call = NoCall
    /\ runs = NoRuns

\* compress.py compress(), decompress.py decompress(): the processor is built
\* and its compress()/decompress() method entered
Processor_call ==
    /\ pc = "start"
    /\ entry = "processor"
    /\ pc' = IF COMMAND = "compress" THEN "c_validate" ELSE "d_validate"
    /\ UNCHANGED <<env, units, cwd, fs,
                   source, is_glob_pattern, matched_files, temp_dir, command_line,
                   attempt, executed, sleeps, result, pending_exit, exited,
                   exit_code, printed, output_lines, cleanup_calls, archives>>

\* main.py main(): ActionRunner() and ActionRunner.run() up to the call of
\* the processor
Main ==
    /\ pc = "start"
    /\ entry = "main"
    /\ IF ActionRunner_init # NoExc
       THEN \* raised outside run()'s try: the interpreter prints the traceback
            Exit(1, {Msg("traceback", ActionRunner_init.text, <<>>, "")})
       ELSE IF validate_inputs(COMMAND, SOURCE, FORMAT) # NoMsg
       THEN Exit(1, {validate_inputs(COMMAND, SOURCE, FORMAT)})
       ELSE IF COMMAND = "compress"
       THEN Exit(1, {Msg("error", "An error occurred: " \o execute_compress.text, <<>>, "")})
       ELSE IF COMMAND = "decompress"
       THEN /\ pc' = "d_validate"
            /\ UNCHANGED <<printed, result, pending_exit, exited, exit_code>>
       ELSE Exit(1, {Msg("error", "Invalid command", <<>>, "")})
    /\ UNCHANGED <<env, units, cwd, fs,
                   source, is_glob_pattern, matched_files, temp_dir, command_line,
                   attempt, executed, sleeps, output_lines, cleanup_calls, archives>>

\* entrypoint.py __main__, lines 226-252: the dispatch on COMMAND
Entrypoint_main ==
    /\ pc = "start"
    /\ entry = "entrypoint"
    /\ IF COMMAND = "compress"
       THEN pc' = "e_compress" /\ UNCHANGED <<printed, result, pending_exit, exited, exit_code>>
       ELSE IF COMMAND = "decompress"
       THEN pc' = "e_decompress" /\ UNCHANGED <<printed, result, pending_exit, exited, exit_code>>
       ELSE Exit(1, {Msg("error", "Invalid command", <<>>, "")})
    /\ UNCHANGED <<env, units, cwd, fs,
                   source, is_glob_pattern, matched_files, temp_dir, command_line,
                   attempt, executed, sleeps, output_lines, cleanup_calls, archives>>

\* entrypoint.py compress(), lines 88-146, up to the call of run_command
Entrypoint_compress ==
    /\ pc = "e_compress"
    /\ IF entrypoint_validate_format(FORMAT) # NoMsg
       THEN /\ Exit(1, {entrypoint_validate_format(FORMAT)})
            /\ UNCHANGED <<source, command_line, fs, cwd>>
       ELSE IF entrypoint_source_error(fs, source, "Source path") # NoMsg
       THEN /\ Exit(1, {entrypoint_source_error(fs, source, "Source path")})
            /\ UNCHANGED <<source, command_line, fs, cwd>>
       ELSE /\ source' = entrypoint_adjust_path(source)
            /\ fs' = prepare_destination(fs)
            /\ command_line' = entrypoint_compress_command(fs, source, FORMAT, INCLUDEROOT)
            /\ cwd' = entrypoint_chdir(fs, source, INCLUDEROOT, cwd)
            /\ pc' = "e_run"
            /\ UNCHANGED <<printed, result, pending_exit, exited, exit_code>>
    /\ UNCHANGED <<env, units,
                   is_glob_pattern, matched_files, temp_dir, attempt, executed,
                   sleeps, output_lines, cleanup_calls, archives>>

\* entrypoint.py decompress(), lines 172-208, up to the call of run_command
Entrypoint_decompress ==
    /\ pc = "e_decompress"
    /\ IF entrypoint_validate_format(FORMAT) # NoMsg
       THEN /\ Exit(1, {entrypoint_validate_format(FORMAT)})
            /\ UNCHANGED <<source, command_line, fs>>
       ELSE IF entrypoint_source_error(fs, source, "Source file") # NoMsg
       THEN /\ Exit(1, {entrypoint_source_error(fs, source, "Source file")})
            /\ UNCHANGED <<source, command_line, fs>>
       ELSE /\ source' = entrypoint_adjust_path(source)
            /\ fs' = prepare_destination(fs)
            /\ command_line' = entrypoint_decompress_command(source, FORMAT)
            /\ pc' = "e_run"
            /\ UNCHANGED <<printed, result, pending_exit, exited, exit_code>>
    /\ UNCHANGED <<env, units, cwd,
                   is_glob_pattern, matched_files, temp_dir, attempt, executed,
                   sleeps, output_lines, cleanup_calls, archives>>

\* entrypoint.py: the file_path line compress() and decompress() write
entrypoint_output(command, cmd) ==
    IF command = "compress" THEN <<cmd.archive>> ELSE <<cmd.C>>

\* entrypoint.py run_command, and the rest of compress()/decompress() after it
Entrypoint_run_command ==
    /\ pc = "e_run"
    /\ \E outcome \in ShellOutcomes(fs, archives, command_line) :
          /\ executed' = Append(executed, [command |-> command_line, outcome |-> outcome])
          /\ fs' = shell(fs, archives, command_line, outcome)
          /\ archives' = shell_archives(fs, archives, command_line, outcome)
          /\ IF outcome = "ok"
             THEN /\ output_lines' = output_lines \o entrypoint_output(COMMAND, command_line)
                  /\ cwd' = IF COMMAND = "compress" THEN entrypoint_restore(Cwd, cwd) ELSE cwd
                  /\ Exit(0, {Msg("report", "Results", <<>>, "")})
             ELSE /\ output_lines' = output_lines
                  /\ cwd' = cwd
                  /\ Exit(1, {Msg("error", "Command failed", <<>>, ""),
                              Msg("log", "Error output", <<>>, Stderr)})
    /\ UNCHANGED <<env, units,
                   source, is_glob_pattern, matched_files, temp_dir, command_line,
                   attempt, sleeps, cleanup_calls>>

-----------------------------------------------------------------------------
(* Compressor.compress *)

\* compress(), lines 380-387: validate() and the dispatch on is_glob_pattern
Compress_validate ==
    /\ pc = "c_validate"
    /\ LET v == Compressor_validate(fs, source)
       IN /\ source' = v.source
          /\ is_glob_pattern' = v.is_glob_pattern
          /\ matched_files' = v.matched_files
          /\ IF v.error # NoMsg
             THEN IF FAIL_ON_ERROR
                  THEN TryExit({v.error})
                  ELSE TryReturn(ProcessResult(FALSE, "Validation failed"),
                                 {Warning(v.error)})
             ELSE /\ pc' = IF v.is_glob_pattern THEN "c_glob" ELSE "c_prepare"
                  /\ UNCHANGED <<printed, result, pending_exit, exited, exit_code>>
          /\ cwd' = IF v.is_glob_pattern
                    THEN find_files_finally(cwd, find_files_chdir(cwd, NoPath))
                    ELSE cwd
    /\ UNCHANGED <<env, units, fs,
                   temp_dir, command_line, attempt, executed, sleeps,
                   output_lines, cleanup_calls, archives>>

\* compress(), lines 390-397: the regular flow up to CommandExecutor.run
Compress_prepare ==
    /\ pc = "c_prepare"
    /\ source' = adjust_path(source)
    /\ fs' = prepare_destination(fs)
    /\ command_line' = get_compression_command(prepare_destination(fs),
                                                adjust_path(source), FORMAT)
    /\ pc' = "run"
    /\ UNCHANGED <<env, units, cwd,
                   is_glob_pattern, matched_files, temp_dir, attempt, executed,
                   sleeps, result, pending_exit, exited, exit_code, printed,
                   output_lines, cleanup_calls, archives>>

\* _compress_glob_pattern, lines 476-507, up to CommandExecutor.run.  The
\* copy may raise: fault = k in 1..n is an OSError at the k-th file,
\* fault = n + 1 one at os.makedirs, fault = 0 none.
Compress_glob ==
    /\ pc = "c_glob"
    /\ temp_dir' = glob_temp_dir
    /\ \E fault \in 0..(Len(matched_files) + 1) :
          IF fault = 0
          THEN /\ fs' = prepare_destination(
                          copy_files(fs, matched_files, glob_temp_dir, Len(matched_files)))
               /\ source' = glob_temp_dir
               /\ command_line' = get_compression_command(fs', glob_temp_dir, FORMAT)
               /\ pc' = "run"
               /\ UNCHANGED <<printed, result, pending_exit, exited, exit_code>>
          ELSE /\ fs' = IF fault = Len(matched_files) + 1 THEN fs
                        ELSE copy_files(fs, matched_files, glob_temp_dir, fault - 1)
               /\ HandleErrorCompress(Exc("OSError", "copy failed", ""))
               /\ UNCHANGED <<source, command_line>>
    /\ UNCHANGED <<env, units, cwd,
                   is_glob_pattern, matched_files, attempt, executed, sleeps,
                   output_lines, cleanup_calls, archives>>

\* compress(), lines 407-409: the finally clause, and what was pending
Compress_finally ==
    /\ pc = "c_finally"
    /\ fs' = cleanup_temp_directory(fs, temp_dir)
    /\ cleanup_calls' = cleanup_calls + 1
    /\ IF pending_exit
       THEN /\ exited' = TRUE
            /\ exit_code' = 1
       ELSE /\ exited' = (entry # "processor")
            /\ exit_code' = 0
    /\ pc' = "done"
    /\ UNCHANGED <<env, units, cwd,
                   source, is_glob_pattern, matched_files, temp_dir, command_line,
                   attempt, executed, sleeps, result, pending_exit, printed,
                   output_lines, archives>>

-----------------------------------------------------------------------------
(* Decompressor.decompress *)

\* decompress(), lines 131-134: validate()
Decompress_validate ==
    /\ pc = "d_validate"
    /\ LET error == Decompressor_validate(fs, source)
       IN IF error # NoMsg
          THEN IF FAIL_ON_ERROR
               THEN Exit(1, {error})
               ELSE Return(ProcessResult(FALSE, "Validation failed"), {Warning(error)})
          ELSE /\ pc' = "d_prepare"
               /\ UNCHANGED <<printed, result, pending_exit, exited, exit_code>>
    /\ UNCHANGED <<env, units, cwd, fs,
                   source, is_glob_pattern, matched_files, temp_dir, command_line,
                   attempt, executed, sleeps, output_lines, cleanup_calls, archives>>

\* _perform_decompression, lines 149-158, up to CommandExecutor.run;
\* get_decompression_command raises ValueError for an unsupported format
Decompress_prepare ==
    /\ pc = "d_prepare"
    /\ source' = adjust_path(source)
    /\ fs' = prepare_destination(fs)
    /\ IF FORMAT \notin DECOMPRESSION_COMMANDS
       THEN /\ HandleErrorDecompress(Exc("ValueError", "Unsupported format", ""))
            /\ UNCHANGED command_line
       ELSE /\ command_line' = get_decompression_command(adjust_path(source), FORMAT)
            /\ pc' = "run"
            /\ UNCHANGED <<printed, result, pending_exit, exited, exit_code>>
    /\ UNCHANGED <<env, units, cwd,
                   is_glob_pattern, matched_files, temp_dir, attempt, executed,
                   sleeps, output_lines, cleanup_calls, archives>>

-----------------------------------------------------------------------------
(* CommandExecutor.run under retry_on_failure *)

\* The report printed after a successful command: Compressor._print_results,
\* Decompressor._print_results
Report(command) ==
    Msg("report", IF command = "compress" THEN "Compression Results"
                  ELSE "Decompression Results", <<>>, "")

\* What is printed after a successful command.  Compressor._print_results
\* prints its report when os.path.exists(self.dest); _compress_glob_pattern
\* goes on with UI.print_success
print_results(f, command, glob) ==
    (IF command = "decompress" \/ (self_dest # EmptyPath /\ exists(f, abspath(self_dest)))
     THEN {Report(command)} ELSE {})
    \cup (IF command = "compress" /\ glob
          THEN {Msg("success", "Successfully compressed", <<>>, "")} ELSE {})

\* One iteration of the retry loop around CommandExecutor.run, and, when the
\* loop ends, the lines of compress()/_compress_glob_pattern()/
\* _perform_decompression() after the call
Run_attempt ==
    /\ pc = "run"
    /\ \E outcome \in ShellOutcomes(fs, archives, command_line) :
          /\ executed' = Append(executed, [command |-> command_line, outcome |-> outcome])
          /\ fs' = shell(fs, archives, command_line, outcome)
          /\ archives' = shell_archives(fs, archives, command_line, outcome)
          /\ IF outcome = "ok"
             THEN /\ IF COMMAND = "compress"
                     THEN TryReturn(ProcessResult(TRUE, "Command executed successfully"),
                                    print_results(fs', COMMAND, is_glob_pattern))
                     ELSE Return(ProcessResult(TRUE, "Command executed successfully"),
                                 print_results(fs', COMMAND, is_glob_pattern))
                  /\ UNCHANGED <<attempt, sleeps>>
             ELSE IF run_failure(FAIL_ON_ERROR) = NoExc
             THEN /\ IF COMMAND = "compress"
                     THEN TryReturn(ProcessResult(FALSE, "Command failed"), {})
                     ELSE Return(ProcessResult(FALSE, "Command failed"), {})
                  /\ UNCHANGED <<attempt, sleeps>>
             ELSE IF retry_delay(attempt) = 0
             THEN /\ IF COMMAND = "compress"
                     THEN HandleErrorCompress(run_failure(FAIL_ON_ERROR))
                     ELSE HandleErrorDecompress(run_failure(FAIL_ON_ERROR))
                  /\ UNCHANGED <<attempt, sleeps>>
             ELSE /\ attempt' = attempt + 1
                  /\ sleeps' = Append(sleeps, retry_delay(attempt))
                  /\ printed' = printed \cup {Msg("warning", "Attempt failed", <<>>, Stderr)}
                  /\ UNCHANGED <<pc, result, pending_exit, exited, exit_code>>
    /\ UNCHANGED <<env, units, cwd,
                   source, is_glob_pattern, matched_files, temp_dir, command_line,
                   output_lines, cleanup_calls>>

-----------------------------------------------------------------------------

Next ==
    \/ Processor_call
    \/ Main
    \/ Entrypoint_main
    \/ Entrypoint_compress
    \/ Entrypoint_decompress
    \/ Entrypoint_run_command
    \/ Compress_validate
    \/ Compress_prepare
    \/ Compress_glob
    \/ Compress_finally
    \/ Decompress_validate
    \/ Decompress_prepare
    \/ Run_attempt

Spec == Init /\ [][Next]_vars

\* The runs of the processors with DEST, DESTFILENAME, EXCLUDE and
\* GITHUB_WORKSPACE unset
InitProcessor ==
    /\ Init
    /\ entry = "processor"
    /\ DEST = NoPath /\ DESTFILENAME = "" /\ EXCLUDE = <<>> /\ GITHUB_WORKSPACE = NoPath

NextProcessor ==
    \/ Processor_call
    \/ Compress_validate
    \/ Compress_prepare
    \/ Compress_glob
    \/ Compress_finally
    \/ Decompress_validate
    \/ Decompress_prepare
    \/ Run_attempt

\* A shell command that was started ends, and the loop of retry_on_failure
\* goes on: subprocess.run returns or raises, time.sleep returns.
SpecFair == InitProcessor /\ [][NextProcessor]_vars /\ WF_vars(Run_attempt)

-----------------------------------------------------------------------------
(* A compression followed by the extraction of what it produced *)

\* decompress.py decompress(): after compress() has returned a success, the
\* caller builds a Decompressor on the archive, with DEST set to a directory
\* that is not there yet.  SOURCE, FORMAT and INCLUDEROOT stay those of the
\* compression.
Round_trip ==
    /\ pc = "done"
    /\ entry = "processor"
    /\ COMMAND = "compress"
    /\ ~exited
    /\ result.success
    /\ COMMAND' = "decompress"
    /\ DEST' = P_restored
    /\ source' = command_line.archive
    /\ pc' = "d_validate"
    /\ command_line' = NoCommand
    /\ attempt' = 0
    /\ executed' = <<>>
    /\ sleeps' = <<>>
    /\ result' = NoResult
    /\ printed' = {}
    /\ UNCHANGED <<units, cwd,
                   entry, SOURCE, FORMAT, INCLUDEROOT, FAIL_ON_ERROR, DESTFILENAME,
                   EXCLUDE, GITHUB_WORKSPACE, fs, is_glob_pattern, matched_files,
                   temp_dir, pending_exit, exited, exit_code, output_lines,
                   cleanup_calls, archives>>

NextRoundTrip ==
    \/ Next
    \/ Round_trip

SpecRoundTrip == Init /\ [][NextRoundTrip]_vars

-----------------------------------------------------------------------------
(* Functions called on their own, and concurrent runs *)

\* The environment with nothing set: every os.getenv gives its default
Unset ==
    /\ entry = None /\ COMMAND = None /\ SOURCE = NoPath /\ FORMAT = None
    /\ INCLUDEROOT = "true" /\ FAIL_ON_ERROR = TRUE
    /\ DEST = NoPath /\ DESTFILENAME = "" /\ EXCLUDE = <<>>
    /\ GITHUB_WORKSPACE = NoPath

\* The variables of the single run, when there is none
Idle ==
    /\ archives = BaseArchives
    /\ pc = "idle"
    /\ source = NoPath
    /\ is_glob_pattern = FALSE
    /\ matched_files = <<>>
    /\ temp_dir = NoPath
    /\ command_line = NoCommand
    /\ attempt = 0
    /\ executed = <<>>
    /\ sleeps = <<>>
    /\ result = NoResult
    /\ pending_exit = FALSE
    /\ exited = FALSE
    /\ exit_code = 0
    /\ printed = {}
    /\ output_lines = <<>>
    /\ cleanup_calls = 0
    /\ cwd = Cwd

run_vars == <<env, fs, pc, source, is_glob_pattern, matched_files, temp_dir,
              command_line, attempt, executed, sleeps, result, pending_exit,
              exited, exit_code, printed, output_lines, cleanup_calls, archives,
              cwd>>

-----------------------------------------------------------------------------
(* os.path and str on the strings themselves: a path is the string the     *)
(* program holds, whitespace, "." and ".." and repeated "/" included       *)

\* str.strip, of the whitespace " "
RECURSIVE lstrip(_)
lstrip(str) == IF str # "" /\ Head(str) = " " THEN lstrip(Tail(str)) ELSE str
RECURSIVE rstrip(_)
rstrip(str) ==
    IF str # "" /\ SubSeq(str, Len(str), Len(str)) = " "
    THEN rstrip(SubSeq(str, 1, Len(str) - 1))
    ELSE str
strip(str) == rstrip(lstrip(str))

\* posixpath.isabs
os_path_isabs(str) == startswith(str, "/")

\* posixpath.join of two strings
os_path_join(a, b) ==
    IF startswith(b, "/") THEN b
    ELSE IF a = "" \/ endswith(a, "/") THEN a \o b
    ELSE a \o "/" \o b

\* posixpath.normpath, its loop over the components: "" and "." are skipped,
\* ".." takes the last component kept away, stays when nothing is kept of a
\* relative path, and is dropped at the root
RECURSIVE normpath_comps(_, _, _)
normpath_comps(comps, new_comps, initial_slashes) ==
    IF comps = <<>> THEN new_comps
    ELSE LET comp == Head(comps)
         IN IF comp = "." THEN normpath_comps(Tail(comps), new_comps, initial_slashes)
            ELSE IF \/ comp # ".."
                    \/ (~initial_slashes /\ new_comps = <<>>)
                    \/ (new_comps # <<>> /\ new_comps[Len(new_comps)] = "..")
            THEN normpath_comps(Tail(comps), Append(new_comps, comp), initial_slashes)
            ELSE IF new_comps # <<>>
            THEN normpath_comps(Tail(comps), SubSeq(new_comps, 1, Len(new_comps) - 1),
                                initial_slashes)
            ELSE normpath_comps(Tail(comps), new_comps, initial_slashes)

\* posixpath.normpath
os_path_normpath(str) ==
    LET initial_slashes == startswith(str, "/")
        slashes == IF startswith(str, "//") /\ ~startswith(str, "///") THEN "//"
                   ELSE IF initial_slashes THEN "/" ELSE ""
        path == slashes \o Join(normpath_comps(components(str, ""), <<>>, initial_slashes))
    IN IF path = "" THEN "." ELSE path

\* os.getcwd(), as a string
os_getcwd == "/" \o Join(Tail(Cwd))

\* posixpath.abspath
os_path_abspath(str) ==
    os_path_normpath(IF os_path_isabs(str) THEN str ELSE os_path_join(os_getcwd, str))

\* FileUtils.adjust_path; github_workspace is os.getenv("GITHUB_WORKSPACE")
FileUtils_adjust_path(path, github_workspace) ==
    LET stripped == strip(path)
    IN IF os_path_isabs(stripped) THEN stripped
       ELSE IF github_workspace \notin {None, ""}
       THEN os_path_abspath(os_path_join(github_workspace, stripped))
       ELSE os_path_abspath(os_path_join(os_getcwd, stripped))

\* entrypoint.py adjust_path
entrypoint_py_adjust_path(path, github_workspace) ==
    IF os_path_isabs(path) THEN path
    ELSE os_path_join(IF github_workspace # None THEN github_workspace ELSE os_getcwd,
                      path)

\* The paths adjust_path is called on, and the values of GITHUB_WORKSPACE
PathStrings ==
    LET names == {"a", "a/b", "a/", "a /", "a/.", "a /.", "a/..", "../a", "./a",
                  "a//b", ".", "..", "", "a b", "a /b"}
        rooted == {"/", "/a", "/a/", "/a /", "/a/../b", "//a", "/a b"}
    IN UNION {{n, " " \o n, n \o " ", " " \o n \o " "} : n \in names \cup rooted}
WorkspaceStrings == {None, "", "/github/workspace", "/github/workspace/"}

\* The two functions named adjust_path
AdjustPathFns == {"FileUtils.adjust_path", "entrypoint.adjust_path"}

InitAdjustPath ==
    /\ Unset
    /\ Idle
    /\ fs = BaseFs
    /\ runs = NoRuns
    /\ \E fn \in AdjustPathFns, path \in PathStrings, ws \in WorkspaceStrings :
          call = [fn |-> fn, path |-> path, github_workspace |-> ws, ret |-> <<>>]

\* The argument of the next call: the path, then what the last call returned
NextPath == IF call.ret = <<>> THEN call.path ELSE call.ret[Len(call.ret)]

\* FileUtils.adjust_path is called, on the path and then on what it returned
Adjust_path ==
    /\ call.fn = "FileUtils.adjust_path"
    /\ Len(call.ret) < 2
    /\ call' = [call EXCEPT !.ret = Append(@, FileUtils_adjust_path(NextPath,
                                                   call.github_workspace))]
    /\ UNCHANGED <<run_vars, runs>>

\* adjust_path of entrypoint.py is called, on the path and then on what it
\* returned
Entrypoint_adjust_path ==
    /\ call.fn = "entrypoint.adjust_path"
    /\ Len(call.ret) < 2
    /\ call' = [call EXCEPT !.ret = Append(@, entrypoint_py_adjust_path(NextPath,
                                                   call.github_workspace))]
    /\ UNCHANGED <<run_vars, runs>>

NextAdjustPath ==
    \/ Adjust_path
    \/ Entrypoint_adjust_path

SpecAdjustPath == InitAdjustPath /\ [][NextAdjustPath]_vars


-----------------------------------------------------------------------------
(* FileUtils.copy_files_to_temp_directory called on its own, with          *)
(* preserve_structure=False: os.makedirs, then one step for each file       *)

\* The longest list of files
MaxPaths == 3

\* The files the list is drawn from: names that collide, a name that looks
\* like a renamed one, a name with no extension and one with two
CopyDirs == {join(Cwd, "x"), join(Cwd, "y")}
CopyNames == {"f1.txt", "f1_1.txt", ".env", "a.tar.gz"}
CopyPool == {join(d, n) : d \in CopyDirs, n \in CopyNames}
PathLists == UNION {[1..n -> CopyPool] : n \in 0..MaxPaths}

\* The filesystem of the call: made holds temp_dir when it is there already
CopyFs(made) ==
    BaseFs @@ [p \in CopyDirs \cup made |-> "dir"] @@ [p \in CopyPool |-> "file"]

InitCopyFiles ==
    /\ Unset
    /\ Idle
    /\ runs = NoRuns
    /\ \E file_paths \in PathLists, made \in SUBSET {glob_temp_dir} :
          /\ fs = CopyFs(made)
          /\ call = [fn |-> "copy_files_to_temp_directory",
                     file_paths |-> file_paths, temp_dir |-> glob_temp_dir,
                     at |-> "makedirs", dest |-> <<>>]

\* os.makedirs(temp_dir, exist_ok=True)
Copy_makedirs ==
    /\ call.fn = "copy_files_to_temp_directory"
    /\ call.at = "makedirs"
    /\ fs' = makedirs(fs, call.temp_dir)
    /\ call' = [call EXCEPT !.at = "for"]
    /\ UNCHANGED <<env, pc, source, is_glob_pattern, matched_files, temp_dir,
                   command_line, attempt, executed, sleeps, result,
                   pending_exit, exited, exit_code, printed, output_lines,
                   cleanup_calls, archives, cwd, runs>>

\* One turn of the loop over file_paths: the destination, and shutil.copy2
Copy_file ==
    /\ call.fn = "copy_files_to_temp_directory"
    /\ call.at = "for"
    /\ Len(call.dest) < Len(call.file_paths)
    /\ LET file_name == basename(call.file_paths[Len(call.dest) + 1])
           dest_path == flat_dest(fs, call.temp_dir, file_name,
                                  join(call.temp_dir, file_name), 1)
       IN /\ fs' = copy2(fs, dest_path)
          /\ call' = [call EXCEPT !.dest = Append(@, dest_path)]
    /\ UNCHANGED <<env, pc, source, is_glob_pattern, matched_files, temp_dir,
                   command_line, attempt, executed, sleeps, result,
                   pending_exit, exited, exit_code, printed, output_lines,
                   cleanup_calls, archives, cwd, runs>>

NextCopyFiles ==
    \/ Copy_makedirs
    \/ Copy_file

SpecCopyFiles == InitCopyFiles /\ [][NextCopyFiles]_vars

-----------------------------------------------------------------------------
(* FileUtils.find_files_by_pattern called on its own, from any directory    *)
(* and with any base_dir                                                    *)

BaseDirs == {NoPath, Cwd, P_data, P_missing, P_archive}
Patterns == {<<"*.txt">>, P_glob, <<"a">>}

InitFindFiles ==
    /\ Unset
    /\ Idle
    /\ runs = NoRuns
    /\ \E n \in 0..MaxFiles : fs = InitialFs(n, {})
    /\ \E pattern \in Patterns, base_dir \in BaseDirs :
          call = [fn |-> "find_files_by_pattern", pattern |-> pattern,
                  base_dir |-> base_dir, original_dir |-> NoPath, at |-> "try",
                  raised |-> FALSE, ret |-> <<>>]

\* lines 478-483: original_dir = os.getcwd() and os.chdir(base_dir), which
\* raises when base_dir is no directory
Find_chdir ==
    /\ call.fn = "find_files_by_pattern"
    /\ call.at = "try"
    /\ IF isdir(fs, find_files_chdir(cwd, call.base_dir))
       THEN /\ cwd' = find_files_chdir(cwd, call.base_dir)
            /\ call' = [call EXCEPT !.original_dir = cwd, !.at = "glob"]
       ELSE /\ cwd' = cwd
            /\ call' = [call EXCEPT !.original_dir = cwd, !.at = "finally",
                                    !.raised = TRUE]
    /\ UNCHANGED <<env, fs, pc, source, is_glob_pattern, matched_files, temp_dir,
                   command_line, attempt, executed, sleeps, result,
                   pending_exit, exited, exit_code, printed, output_lines,
                   cleanup_calls, archives, runs>>

\* lines 484-498: the matches that are files, as absolute paths; fault is an
\* exception raised in between
Find_glob ==
    /\ call.fn = "find_files_by_pattern"
    /\ call.at = "glob"
    /\ \E fault \in BOOLEAN :
          call' = IF fault
                  THEN [call EXCEPT !.at = "finally", !.raised = TRUE]
                  ELSE [call EXCEPT !.at = "finally",
                            !.ret = SetToSeq(
                                {m \in glob_matches(fs, IF isabs(call.pattern)
                                                        THEN call.pattern
                                                        ELSE cwd \o call.pattern) :
                                    isfile(fs, realpath(fs, m))})]
    /\ UNCHANGED <<env, fs, pc, source, is_glob_pattern, matched_files, temp_dir,
                   command_line, attempt, executed, sleeps, result,
                   pending_exit, exited, exit_code, printed, output_lines,
                   cleanup_calls, archives, cwd, runs>>

\* lines 499-501: the finally clause, and the function returns or raises
Find_finally ==
    /\ call.fn = "find_files_by_pattern"
    /\ call.at = "finally"
    /\ cwd' = find_files_finally(call.original_dir, cwd)
    /\ call' = [call EXCEPT !.at = IF call.raised THEN "raised" ELSE "returned"]
    /\ UNCHANGED <<env, fs, pc, source, is_glob_pattern, matched_files, temp_dir,
                   command_line, attempt, executed, sleeps, result,
                   pending_exit, exited, exit_code, printed, output_lines,
                   cleanup_calls, archives, runs>>

\* The runs of the program, and find_files_by_pattern called on its own
InitCwd == Init \/ InitFindFiles
NextCwd ==
    \/ Next
    \/ Find_chdir
    \/ Find_glob
    \/ Find_finally

SpecCwd == InitCwd /\ [][NextCwd]_vars

-----------------------------------------------------------------------------
(* Two compress() calls at the same time, each at its staged command       *)
(*   mkdir -p T && cp -r S/* T/ && tar ... -C T . && rm -rf T              *)
(* of compress.py, lines 339-344.  The steps of the two shells interleave. *)

\* The directories the concurrent runs compress
P_build == join(P_data, "build")
P_inner == join(P_data, "data")
ConcurrentSources == {P_data, P_build, P_inner}

\* A run: its source and format, the command get_compression_command built
\* for it, the step its shell is at, and the entries its cp put into T
Runner(src, fmt, cmd) ==
    [source |-> src, format |-> fmt, command |-> cmd, pc |-> "mkdir", staged |-> {}]

\* Both processes have read the same environment, and prepare_destination
\* of each has found or made the destination.
InitConcurrent ==
    /\ entry = "processor" /\ COMMAND = "compress" /\ SOURCE = NoPath /\ FORMAT = None
    /\ INCLUDEROOT = "false" /\ FAIL_ON_ERROR = FALSE
    /\ DEST = P_out /\ DESTFILENAME \in DestFileNames /\ EXCLUDE = <<>>
    /\ GITHUB_WORKSPACE = NoPath
    /\ Idle
    /\ call = NoCall
    /\ fs = prepare_destination(BaseFs)
    /\ \E s1 \in ConcurrentSources, s2 \in ConcurrentSources,
          f1 \in {"tgz", "tbz2"}, f2 \in {"tgz", "tbz2"} :
          runs = <<Runner(s1, f1, get_compression_command(fs, s1, f1)),
                   Runner(s2, f2, get_compression_command(fs, s2, f2))>>

\* The entries below directory d, by their paths relative to d
Below(f, d) ==
    {SubSeq(q, Len(d) + 1, Len(q)) : q \in {r \in DOMAIN f : IsPrefix(d, r) /\ r # d}}

\* What cp -r d/* copies: the entries below the expansion of d/*, by their
\* paths relative to d
Copied(f, d) ==
    {SubSeq(q, Len(d) + 1, Len(q)) :
        q \in {r \in DOMAIN f : \E e \in star(f, d) : IsPrefix(e, r)}}

\* mkdir -p T
Run_mkdir ==
    \E i \in DOMAIN runs :
        /\ runs[i].pc = "mkdir"
        /\ fs' = makedirs(fs, runs[i].command.staging)
        /\ runs' = [runs EXCEPT ![i].pc = "cp"]
        /\ UNCHANGED <<env, pc, source, is_glob_pattern, matched_files, temp_dir,
                       command_line, attempt, executed, sleeps, result,
                       pending_exit, exited, exit_code, printed, output_lines,
                       cleanup_calls, archives, cwd, call>>

\* cp -r S/* T/ : it fails when S/* expands to nothing or T is no directory,
\* and the chain ends there
Run_cp ==
    \E i \in DOMAIN runs :
        LET cmd == runs[i].command
        IN /\ runs[i].pc = "cp"
           /\ IF isdir(fs, cmd.staging) /\ star(fs, cmd.cd) # {}
              THEN /\ fs' = cp_r_star(fs, cmd.cd, cmd.staging)
                   /\ runs' = [runs EXCEPT ![i].pc = "tar",
                                           ![i].staged = Copied(fs, cmd.cd)]
              ELSE /\ fs' = fs
                   /\ runs' = [runs EXCEPT ![i].pc = "failed"]
           /\ UNCHANGED <<env, pc, source, is_glob_pattern, matched_files, temp_dir,
                          command_line, attempt, executed, sleeps, result,
                          pending_exit, exited, exit_code, printed, output_lines,
                          cleanup_calls, archives, cwd, call>>

\* tar ... -C T . : it fails when T is no directory, and the chain ends there
Run_tar ==
    \E i \in DOMAIN runs :
        LET cmd == runs[i].command
        IN /\ runs[i].pc = "tar"
           /\ IF isdir(fs, cmd.staging)
              THEN /\ fs' = copy2(fs, cmd.archive)
                   /\ archives' = (cmd.archive :> tar_members(fs, cmd.staging, ".",
                                                     cmd.exclude, cmd.archive)) @@ archives
                   /\ runs' = [runs EXCEPT ![i].pc = "rm"]
              ELSE /\ UNCHANGED <<fs, archives>>
                   /\ runs' = [runs EXCEPT ![i].pc = "failed"]
           /\ UNCHANGED <<env, pc, source, is_glob_pattern, matched_files, temp_dir,
                          command_line, attempt, executed, sleeps, result,
                          pending_exit, exited, exit_code, printed, output_lines,
                          cleanup_calls, cwd, call>>

\* rm -rf T
Run_rm ==
    \E i \in DOMAIN runs :
        /\ runs[i].pc = "rm"
        /\ fs' = rmtree(fs, runs[i].command.staging)
        /\ runs' = [runs EXCEPT ![i].pc = "done"]
        /\ UNCHANGED <<env, pc, source, is_glob_pattern, matched_files, temp_dir,
                       command_line, attempt, executed, sleeps, result,
                       pending_exit, exited, exit_code, printed, output_lines,
                       cleanup_calls, archives, cwd, call>>

NextConcurrent ==
    \/ Run_mkdir
    \/ Run_cp
    \/ Run_tar
    \/ Run_rm

SpecConcurrent == InitConcurrent /\ [][NextConcurrent]_vars


-----------------------------------------------------------------------------
(* Properties *)

Done == pc = "done"
Staged == command_line.tool = "mkdir+cp+tar+rm"
Ran == executed # <<>>
LastOutcome == executed[Len(executed)].outcome
\* The archiver's failure that surfaces: its last attempt exited nonzero.
CommandFailed == Ran /\ LastOutcome # "ok"
BrokenLink(p) == islink(fs, p) /\ ~exists(fs, realpath(fs, p))
\* The positions inside Compressor.compress and Decompressor.decompress
ProcessorPcs == {"c_validate", "c_prepare", "c_glob", "c_finally",
                 "d_validate", "d_prepare", "run"}

\* C1: after a tgz/tbz2 compression without the root directory has finished,
\* the staging directory temp_<base>_<format> beside the source no longer
\* exists, whether the staged command succeeded or one of its steps failed.
C1_StagingDirRemoved ==
    (Done /\ Staged) => ~lexists(fs, command_line.staging)

C3_CommandFailure ==
    (Done /\ entry # "entrypoint" /\ CommandFailed) =>
        IF FAIL_ON_ERROR
        THEN /\ exited /\ exit_code = 1
             /\ \E m \in printed : m.level = "error" /\ m.stderr = Stderr
        ELSE /\ ~exited
             /\ result.message # None /\ ~result.success
             /\ COMMAND = "compress" =>
                   /\ cleanup_calls = 1
                   /\ temp_dir # NoPath => ~lexists(fs, temp_dir)

\* C3 witness: a fail-fast run whose command failed on every attempt.
C3_Witness ==
    /\ Done /\ entry = "processor" /\ CommandFailed /\ FAIL_ON_ERROR
    /\ exited /\ exit_code = 1

\* C4: a failure of the archiver command reaches the caller only after
\* max_retries attempts, the wait before attempt k+1 being k times the delay.
C4_FailureAfterAllAttempts ==
    (Done /\ entry # "entrypoint" /\ CommandFailed) =>
        /\ Len(executed) = max_retries
        /\ sleeps = [k \in 1..(max_retries - 1) |-> k * delay]

\* C5: when SOURCE names a path that does not exist: under FAIL_ON_ERROR=true
\* the run prints an error that mentions the path (as given, or as rewritten
\* for the container) and exits with code 1; under FAIL_ON_ERROR=false the
\* operation returns a failed result and the process goes on; for compress
\* and for decompress.
C5_MissingSource ==
    (Done /\ entry = "processor" /\ ~is_glob(SOURCE) /\ ~lexists(fs, SOURCE)) =>
        IF FAIL_ON_ERROR
        THEN /\ exited /\ exit_code = 1
             /\ \E m \in printed : m.level = "error" /\ m.path \in {SOURCE, runner_path(SOURCE)}
        ELSE /\ ~exited
             /\ result.message # None /\ ~result.success

C7_UnsupportedFormatRejected ==
    FORMAT \notin CompressionFormat =>
        /\ command_line = NoCommand
        /\ executed = <<>>
        /\ Done => (exited /\ exit_code = 1) \/ (~exited /\ ~result.success)

\* C8: a run through ActionRunner with valid inputs, a present source and an
\* archiver that does not fail ends with exit code 0, for compress and for
\* decompress.
C8_SuccessExitsZero ==
    (/\ Done /\ entry = "main"
     /\ COMMAND \in Commands
     /\ validate_inputs(COMMAND, SOURCE, FORMAT) = NoMsg
     /\ exists(fs, SOURCE)
     /\ \A i \in 1..Len(executed) : executed[i].outcome = "ok")
    => (exited /\ exit_code = 0)

\* C9: a run through the action's entry point with COMMAND, SOURCE or FORMAT
\* missing or empty, or with a COMMAND that is neither compress nor
\* decompress, never enters Compressor or Decompressor, never executes a shell
\* command, and ends with exit code 1.
InputsMissing ==
    \/ COMMAND \notin Commands
    \/ SOURCE \in {NoPath, EmptyPath}
    \/ FORMAT \in {None, ""}

C9_MissingInputsExitOne ==
    (entry \in {"main", "entrypoint"} /\ InputsMissing) =>
        /\ pc \notin ProcessorPcs
        /\ executed = <<>>
        /\ Done => (exited /\ exit_code = 1)

\* C9 witness: the script has ended on an empty FORMAT.
C9_Witness ==
    /\ Done /\ entry = "entrypoint" /\ COMMAND = "compress" /\ FORMAT = ""
    /\ SOURCE = P_data /\ exited /\ exit_code = 1

\* C10: a successful compress or decompress run has appended exactly one
\* file_path line, holding the archive or the destination, to $GITHUB_OUTPUT,
\* and a failed run none.
C10_OneOutputLine ==
    (Done /\ Ran) =>
        IF LastOutcome = "ok"
        THEN output_lines \in {<<command_line.archive>>, <<command_line.C>>}
        ELSE output_lines = <<>>

\* The regular files below directory d, by their paths relative to d
FilesBelow(f, d) ==
    {SubSeq(q, Len(d) + 1, Len(q)) :
        q \in {r \in DOMAIN f : IsPrefix(d, r) /\ r # d /\ f[r] = "file"}}

\* The extraction of the archive a compression of P_data produced has ended
\* with a success.
Restored ==
    /\ Done /\ COMMAND = "decompress" /\ DEST = P_restored /\ result.success
    /\ SOURCE = P_data /\ FORMAT \in CompressionFormat

\* C11: compressing the directory P_data with any of the four formats and
\* either includeRoot value, no pattern excluded, and extracting the archive
\* with the same format into a new directory, puts there exactly the files of
\* P_data, by the same relative paths: under data/ when includeRoot is true,
\* directly under the destination otherwise.
C11_RoundTrip ==
    (Restored /\ EXCLUDE = <<>>) =>
        FilesBelow(fs, P_restored) =
            {(IF include_root THEN <<basename(P_data)>> ELSE <<>>) \o m :
                m \in FilesBelow(BaseFs, P_data)}

\* A compression of the directory P_data through Compressor.compress has
\* ended with a success.
Compressed ==
    /\ Done /\ entry = "processor" /\ COMMAND = "compress" /\ result.success
    /\ SOURCE = P_data /\ FORMAT \in CompressionFormat

\* The pattern is the path, relative to P_data, of a directory inside P_data.
NamesDirectory(pattern) ==
    Join(components(pattern, "")) = pattern /\ isdir_below(BaseFs, P_data, pattern)

\* The members of the archive the run wrote
Members == DOMAIN archives[command_line.archive]

\* The names the entries of P_data have in the archive start with this
RootPrefix == IF include_root THEN <<basename(P_data)>> ELSE <<>>

\* C12: when EXCLUDE is the path of a directory inside the source, the archive
\* holds neither the entry of that directory nor anything below it, for each
\* of the four formats and both includeRoot values.
C12_ExcludedDirectoryAbsent ==
    (Compressed /\ Len(EXCLUDE) = 1 /\ NamesDirectory(EXCLUDE[1])) =>
        \A m \in Members :
            ~IsPrefix(RootPrefix \o components(EXCLUDE[1], ""), m)

\* A command has been built by Compressor for one of the four formats.
Built ==
    /\ entry = "processor" /\ COMMAND = "compress"
    /\ command_line # NoCommand /\ FORMAT \in CompressionFormat

\* The directory the archiver works in, and the letter of the compression
WorkingDirectory == IF FORMAT = "zip" THEN command_line.cd ELSE command_line.C
Flag == IF FORMAT = "tgz" THEN "z" ELSE IF FORMAT = "tbz2" THEN "j" ELSE ""

\* C13 as stated: for each of the four formats the archiver works in
\* parent(source) on basename(source) when includeRoot is true, and in source
\* on "." otherwise; zip runs with -r and tar with -cf, -czf, -cjf.
C13_DecisionTable ==
    Built =>
        /\ WorkingDirectory = IF include_root THEN dirname(source) ELSE source
        /\ command_line.target = IF include_root THEN basename(source) ELSE "."
        /\ command_line.opt = IF FORMAT = "zip" THEN "-r" ELSE "-c" \o Flag \o "f"
        /\ command_line.tool = IF FORMAT = "zip" THEN "zip" ELSE "tar"

\* The source the command builders archive: the current directory stands for
\* /github/workspace
ArchivedSource == IF source = P_workspace THEN Cwd ELSE source

\* C13 amended: the table holds of zip and tar with both includeRoot values
\* and of tgz and tbz2 with includeRoot true, the current directory standing
\* for a source /github/workspace; tgz and tbz2 with includeRoot false run the
\* staged chain, whose tar works in temp_<base>_<format> beside the source,
\* on ".", after the entries of the source were copied there.
C13_DecisionTableStaged ==
    Built =>
        /\ command_line.opt = IF FORMAT = "zip" THEN "-r" ELSE "-c" \o Flag \o "f"
        /\ IF FORMAT \in {"tgz", "tbz2"} /\ ~include_root
           THEN /\ Staged
                /\ command_line.staging =
                      join(dirname(source),
                           "temp_" \o (IF DESTFILENAME # "" THEN DESTFILENAME
                                       ELSE basename(source)) \o "_" \o FORMAT)
                /\ WorkingDirectory = command_line.staging
                /\ command_line.target = "."
                /\ command_line.cd = source
           ELSE /\ command_line.tool = IF FORMAT = "zip" THEN "zip" ELSE "tar"
                /\ WorkingDirectory = IF include_root THEN dirname(ArchivedSource)
                                      ELSE ArchivedSource
                /\ command_line.target = IF include_root THEN basename(ArchivedSource)
                                         ELSE "."

\* C13 witness: the zip command for the contents of P_data has been built.
C13_Witness ==
    /\ Built /\ pc = "run" /\ FORMAT = "zip" /\ ~include_root
    /\ command_line.cd = P_data /\ command_line.target = "."

\* The file name of the archive: <DESTFILENAME or basename(source)>.<format>
ArchiveName ==
    (IF DESTFILENAME # "" THEN DESTFILENAME ELSE basename(source)) \o "." \o FORMAT

\* The archive is beside the source when includeRoot is true, inside it
\* otherwise.
DefaultPlacement ==
    command_line.archive = join(IF include_root THEN dirname(source) ELSE source,
                                ArchiveName)

\* C14 as stated: with DEST configured and different from the current
\* directory the archive is the absolute path of DEST/<name>.<format>; with
\* DEST not configured, or equal to the current directory, the archive is
\* beside the source (includeRoot true) or inside it (includeRoot false).
C14_ArchivePath ==
    Built =>
        IF DEST \notin {NoPath, EmptyPath} /\ DEST # Cwd
        THEN command_line.archive = (IF isabs(DEST) THEN DEST ELSE Cwd \o DEST)
                                        \o <<ArchiveName>>
        ELSE DefaultPlacement

\* The destination directory: DEST, or GITHUB_WORKSPACE when DEST is not set,
\* or the current directory when neither is
DestinationDirectory ==
    IF DEST # NoPath THEN DEST
    ELSE IF GITHUB_WORKSPACE # NoPath THEN GITHUB_WORKSPACE
    ELSE Cwd

\* C14 amended: when the destination directory (DEST, or GITHUB_WORKSPACE when
\* DEST is not set) is not empty and differs from the current directory, the
\* archive is the absolute path of <it>/<name>.<format>; otherwise the archive
\* <name>.<format> is beside the source (includeRoot true) or inside it
\* (includeRoot false).
C14_ArchivePathWorkspace ==
    Built =>
        IF DestinationDirectory # EmptyPath /\ DestinationDirectory # Cwd
        THEN command_line.archive =
                (IF isabs(DestinationDirectory) THEN DestinationDirectory
                 ELSE Cwd \o DestinationDirectory) \o <<ArchiveName>>
        ELSE DefaultPlacement

\* C14 witness: a command was built with the relative DEST "out" and the
\* DESTFILENAME "backup".
C14_Witness ==
    /\ Built /\ DEST = P_out /\ FORMAT = "zip" /\ SOURCE = P_data
    /\ command_line.archive = <<Root, "w", "out", "backup.zip">>

\* A command has been built by Decompressor.
Unpacking ==
    entry = "processor" /\ COMMAND = "decompress" /\ command_line # NoCommand

\* C15: the command Decompressor builds is the one the format, the source
\* and the destination directory give: unzip -d <dest> <source>, or
\* unzip -j -d . <source> when the destination is empty; tar -xf, -xzf, -xjf
\* <source> -C <dest or .>; whatever INCLUDEROOT and EXCLUDE are.
C15_DecompressionCommand ==
    Unpacking =>
        /\ FORMAT \in CompressionFormat
        /\ command_line.archive = source
        /\ command_line.C = IF DestinationDirectory # EmptyPath
                            THEN DestinationDirectory ELSE <<".">>
        /\ command_line.tool = IF FORMAT = "zip" THEN "unzip" ELSE "tar"
        /\ command_line.opt =
              IF FORMAT = "zip"
              THEN (IF DestinationDirectory # EmptyPath THEN "-d" ELSE "-j -d")
              ELSE "-x" \o Flag \o "f"
        /\ command_line.exclude = <<>>
        /\ command_line.target = ""
        /\ command_line.cd = <<>>
        /\ command_line.staging = <<>>

\* C15 witness: tar -xzf <source> -C out was built while INCLUDEROOT is false
\* and EXCLUDE holds a pattern.
C15_Witness ==
    /\ Unpacking /\ pc = "run" /\ FORMAT = "tgz" /\ DEST = P_out
    /\ INCLUDEROOT = "false" /\ EXCLUDE = <<"build">>
    /\ command_line.opt = "-xzf" /\ command_line.C = P_out

\* C16: when a run of Compressor.compress or Decompressor.decompress has
\* ended, it has printed the success report or an error through
\* UI.print_error, whatever FAIL_ON_ERROR is and whatever failed.
C16_ReportOrError ==
    (Done /\ entry = "processor") =>
        \E m \in printed : m.level \in {"report", "error"}

\* SOURCE is a glob pattern that matches no regular file.
ZeroMatch == is_glob(SOURCE) /\ find_files_by_pattern(fs, SOURCE) = <<>>

\* C17: when SOURCE is a glob pattern that matches no regular file, no staging
\* directory is made and no command built or executed; under
\* FAIL_ON_ERROR=true the run prints the error and exits with code 1; under
\* FAIL_ON_ERROR=false the match list is empty, a warning is logged and
\* compress() returns the failed result of a validation.
C17_GlobZeroMatch ==
    (entry = "processor" /\ COMMAND = "compress" /\ ZeroMatch) =>
        /\ executed = <<>>
        /\ command_line = NoCommand
        /\ temp_dir = NoPath /\ ~lexists(fs, glob_temp_dir)
        /\ Done =>
              IF FAIL_ON_ERROR
              THEN /\ exited /\ exit_code = 1
                   /\ \E m \in printed : m.level = "error"
              ELSE /\ ~exited
                   /\ matched_files = <<>>
                   /\ result = ProcessResult(FALSE, "Validation failed")
                   /\ \E m \in printed : m.level = "warning"

\* The name of the directory the command archives, and the patterns emitted
SourceDirName == basename(ArchivedSource)
Emitted == {command_line.exclude[i] : i \in 1..Len(command_line.exclude)}

\* C18: with includeRoot true, a pattern p that starts with <sourceDirName>/
\* or equals <sourceDirName> is emitted unchanged, and every other pattern is
\* emitted with <sourceDirName>/ put before it, in the -x fragment of zip and
\* in the --exclude fragment of tar alike.
C18_RootPrefix ==
    (Built /\ include_root /\ Len(EXCLUDE) = 1) =>
        LET p == EXCLUDE[1] IN
        IF startswith(p, SourceDirName \o "/") \/ p = SourceDirName
        THEN Emitted = {p}
        ELSE /\ Emitted # {}
             /\ \A e \in Emitted : startswith(e, SourceDirName \o "/" \o p)

\* The pattern names a directory inside the archived source: by its relative
\* path, with or without a "/" at its end, or (includeRoot true) with the
\* root directory's name before it.  RelativeName is the relative path.
RelativeName(pattern) ==
    LET c == components(pattern, "")
    IN IF include_root /\ Len(c) > 1 /\ c[1] = SourceDirName
          /\ isdir(fs, ArchivedSource \o Tail(c))
       THEN Tail(c)
       ELSE c
NamesDirectoryInside(pattern) ==
    /\ ~endswith(pattern, "/*")
    /\ RelativeName(pattern) # <<>>
    /\ isdir(fs, ArchivedSource \o RelativeName(pattern))

\* C19: for a pattern that names a directory inside the source and does not
\* end in /*, the fragment holds both <prefix>/* and <prefix>/, the prefix
\* carrying the root directory's name when includeRoot is true; for zip and
\* for tar, both includeRoot values, with or without a trailing slash or the
\* root prefix in the pattern.
C19_DirectoryExpansion ==
    (Built /\ isdir(fs, ArchivedSource) /\ Len(EXCLUDE) = 1
           /\ NamesDirectoryInside(EXCLUDE[1])) =>
        LET prefix == (IF include_root THEN SourceDirName \o "/" ELSE "")
                          \o Join(RelativeName(EXCLUDE[1]))
        IN {prefix \o "/*", prefix \o "/"} \subseteq Emitted

\* The container's path for a path below the runner's workspace
\* /home/runner/work/<repository>/<repository>
ContainerPath(p) == P_workspace \o SubSeq(p, 7, Len(p))

\* C20: once Compressor.validate has resolved a SOURCE that begins with
\* /home/runner/work/, the source is the container's workspace root followed
\* by the part of SOURCE below the runner's workspace root.
C20_RunnerPath ==
    (/\ entry = "processor" /\ COMMAND = "compress"
     /\ IsPrefix(<<Root, "home", "runner", "work">>, SOURCE) /\ Len(SOURCE) > 4
     /\ pc \in {"c_prepare", "c_glob", "run", "c_finally", "done"})
    => source = ContainerPath(SOURCE)

\* adjust_path has been called on a path.
Adjusted == call.fn \in AdjustPathFns /\ call.ret # <<>>

\* The directory a relative path is joined to: GITHUB_WORKSPACE, or the
\* current directory when it is unset or empty
WorkspaceRoot ==
    IF call.github_workspace \in {None, ""} THEN os_getcwd ELSE call.github_workspace

\* C21: adjust_path returns an absolute path as it is but for the whitespace
\* around it, returns for a relative path the path joined to GITHUB_WORKSPACE
\* (to the current directory when that is unset), as joined or in its normal
\* form, and applied to its own result returns that result again.
C21_AdjustPath ==
    Adjusted =>
        LET path == strip(call.path)
            joined == os_path_join(WorkspaceRoot, path)
        IN /\ IF os_path_isabs(path) THEN call.ret[1] = path
              ELSE call.ret[1] \in {joined, os_path_normpath(joined)}
           /\ Len(call.ret) = 2 => call.ret[2] = call.ret[1]

\* Two compressions run at the same time.
Concurrent == Len(runs) = 2

\* The staging directory of run i
StagingOf(i) == runs[i].command.staging

\* C22: two compressions that run at the same time never have the same
\* staging directory, and between the copy and the tar of a run its staging
\* directory holds the entries that run copied there, no more and no fewer.
C22_StagingPerInvocation ==
    Concurrent =>
        /\ StagingOf(1) # StagingOf(2)
        /\ \A i \in DOMAIN runs :
              runs[i].pc = "tar" => Below(fs, StagingOf(i)) = runs[i].staged

\* The members "tar -C <source> ." gives the archive, the patterns of
\* EXCLUDE excluded: what the plain tar strategy archives of the source as
\* it is now
PlainTarMembers ==
    DOMAIN tar_members(fs, source, ".", process_tar_exclude_patterns(source),
                       command_line.archive)

\* C23: for a source directory compressed to tgz or tbz2 with includeRoot
\* false, the staged command can succeed, the directory being empty or not,
\* and the archive it writes holds the members the plain tar command
\* (-C <source> .) gives it, those whose names start with a dot among them.
C23_StagingEquivalence ==
    (entry = "processor" /\ COMMAND = "compress" /\ Staged /\ isdir(fs, source)) =>
        /\ pc = "run" => "ok" \in ShellOutcomes(fs, archives, command_line)
        /\ (Done /\ result.success) => Members = PlainTarMembers

\* The source as validate() looks at it, and validate() returning False or
\* leaving through sys.exit: the source is missing, a link to a missing
\* target, or a glob pattern that matches no regular file
SourceSeen == IF COMMAND = "compress" THEN runner_path(SOURCE) ELSE SOURCE
ValidationFails ==
    /\ entry = "processor" /\ pc # "start"
    /\ IF COMMAND = "compress" /\ is_glob(SourceSeen)
       THEN find_files_by_pattern(fs, SourceSeen) = <<>>
       ELSE ~lexists(fs, SourceSeen) \/ BrokenLink(SourceSeen)

\* The filesystems a run can start in
InitialFilesystems ==
    {InitialFs(n, optional) :
        n \in 0..MaxFiles, optional \in SUBSET ({P_target, P_workspace} \cup Leftovers)}

\* C24: when validate() fails, no command is built or executed, no attempt is
\* retried and no backoff slept, the filesystem is as the run found it (the
\* destination directory is not created), and under FAIL_ON_ERROR=false the
\* run ends with the failed result "Validation failed".
C24_NothingBeforeValidation ==
    ValidationFails =>
        /\ command_line = NoCommand
        /\ executed = <<>>
        /\ attempt = 0 /\ sleeps = <<>>
        /\ fs \in InitialFilesystems
        /\ DEST = P_out => ~exists(fs, P_out)
        /\ (Done /\ ~FAIL_ON_ERROR) =>
              (~exited /\ result = ProcessResult(FALSE, "Validation failed"))

\* C24 witness: a decompression of a missing archive into the directory out,
\* which is not there, has returned its failed result.
C24_Witness ==
    /\ Done /\ ValidationFails /\ COMMAND = "decompress" /\ SOURCE = P_missing
    /\ ~FAIL_ON_ERROR /\ DEST = P_out /\ ~exists(fs, P_out)
    /\ result = ProcessResult(FALSE, "Validation failed")

\* CommandExecutor.run is being called; it has been called and has ended.
Running == pc = "run"
RunEnded == entry # "entrypoint" /\ command_line # NoCommand /\ pc # "run"

\* What holds of every call of CommandExecutor.run: at most max_retries
\* executions, none after an execution that exited with status 0, a sleep
\* between two executions only; and, once it has ended, one execution at
\* least and no sleep after the last.
RunBounded ==
    entry # "entrypoint" =>
        /\ Len(executed) <= max_retries
        /\ \A i \in 1..(Len(executed) - 1) : executed[i].outcome # "ok"
        /\ Running => Len(sleeps) = Len(executed)
        /\ RunEnded => (Len(executed) >= 1 /\ Len(sleeps) = Len(executed) - 1)

LeftoverNotArchived ==
    \A a \in DOMAIN archives : \A m \in DOMAIN archives[a] :
        basename(m) # basename(P_staged_old)
LeftoverNotDeleted ==
    \A p \in Leftovers : lexists(fs, p) => lexists(fs', p)

\* C26: a file that is in the staging directory (temp_<base>_<format> beside
\* the source, compress_glob_<pid> in the temp directory) before the run is
\* never a member of an archive and is never deleted.
C26_LeftoverUntouched == []LeftoverNotArchived /\ [][LeftoverNotDeleted]_vars

\* The path whose existence validate() checked, and the run has built its
\* command from a relative SOURCE
Validated == abspath(SOURCE)
BuiltFromRelative ==
    /\ entry = "processor" /\ SOURCE # EmptyPath /\ ~isabs(SOURCE)
    /\ command_line # NoCommand

\* C27: the command built from a relative SOURCE reads the path that
\* validate() checked, whatever GITHUB_WORKSPACE is.
C27_SameLocation == BuiltFromRelative => source = Validated

\* A run of main.py with FAIL_ON_ERROR=false whose inputs pass
\* validate_inputs has ended
SoftRunEnded ==
    /\ entry = "main" /\ ~FAIL_ON_ERROR /\ Done
    /\ COMMAND \in Commands
    /\ validate_inputs(COMMAND, SOURCE, FORMAT) = NoMsg

\* C28: with FAIL_ON_ERROR=false, compress()/decompress() returns to
\* execute_command, which drops the boolean: the run ends with the exit
\* status of a successful run, 0, whether the operation succeeded or not.
C28_OutcomeNotInExitStatus == SoftRunEnded => (result # NoResult /\ exit_code = 0)

\* copy_files_to_temp_directory is at work; the files in its directory; the
\* name a colliding file gets with the number k
Copying == call.fn = "copy_files_to_temp_directory"
StagedFiles ==
    {q \in DOMAIN fs : Len(q) = Len(call.temp_dir) + 1 /\ IsPrefix(call.temp_dir, q)}
Numbered(file_name, k) ==
    join(call.temp_dir,
         splitext(file_name)[1] \o "_" \o ToString(k) \o splitext(file_name)[2])

\* C29: after i of the n files are copied into a directory that held none,
\* the directory holds i files; the i-th is stored under its own name when
\* no earlier file took it, and otherwise as <base>_<k><ext> with the
\* smallest k >= 1 whose name no earlier file took.
C29_FlattenedNoOverwrite ==
    Copying =>
        /\ Cardinality(StagedFiles) = Len(call.dest)
        /\ StagedFiles = {call.dest[i] : i \in 1..Len(call.dest)}
        /\ \A q \in StagedFiles : fs[q] = "file"
        /\ \A i \in 1..Len(call.dest) :
              LET taken == {call.dest[j] : j \in 1..(i - 1)}
                  file_name == basename(call.file_paths[i])
              IN IF join(call.temp_dir, file_name) \notin taken
                 THEN call.dest[i] = join(call.temp_dir, file_name)
                 ELSE \E k \in 1..MaxPaths :
                         /\ call.dest[i] = Numbered(file_name, k)
                         /\ \A j \in 1..(k - 1) : Numbered(file_name, j) \in taken

\* Three files of one name are copied: the third is stored with the number 2.
C29_Witness ==
    /\ Copying
    /\ Len(call.dest) = 3
    /\ Len(call.file_paths) = 3
    /\ \A i \in 1..3 : basename(call.file_paths[i]) = "f1.txt"
    /\ call.dest[3] = join(call.temp_dir, "f1_2.txt")

\* find_files_by_pattern has returned or raised; compress of entrypoint.py has
\* returned; a call of compress() or decompress() of the application is under way
FindEnded == call.fn = "find_files_by_pattern" /\ call.at \in {"returned", "raised"}
EntrypointCompressReturned ==
    /\ entry = "entrypoint" /\ COMMAND = "compress"
    /\ Done /\ Ran /\ LastOutcome = "ok"
ProcessorCall == entry = "processor"

\* C30: the working directory is the one before the call after
\* find_files_by_pattern has returned or raised, after compress of
\* entrypoint.py has returned, and all along a call of the application's
\* compress() or decompress().
C30_WorkingDirectoryKept ==
    /\ FindEnded => cwd = call.original_dir
    /\ EntrypointCompressReturned => cwd = Cwd
    /\ ProcessorCall => cwd = Cwd

\* find_files_by_pattern went to another directory and has returned.
C30_Witness ==
    /\ call.fn = "find_files_by_pattern"
    /\ call.at = "returned"
    /\ call.base_dir = P_data
    /\ call.original_dir = Cwd
    /\ cwd = Cwd

====
